---- MODULE Spec2Model ----
(***************************************************************************)
(* A model of the trigram index of andrewarchi/codesearch: the index       *)
(* writer (index/write.go), the index reader and its posting queries        *)
(* (index/read.go) and the index merger (index/merge.go).                   *)
(*                                                                         *)
(* Files are sequences of bytes (0..255); strings are sequences of bytes.   *)
(* A buffered writer is the sequence of the bytes written to it so far, so  *)
(* that its offset is the length of that sequence.                          *)
(*                                                                         *)
(* TLC's integers are 32-bit signed.  The uint32 value ^uint32(0) is        *)
(* represented by U32Max, the largest TLC integer, and the two places       *)
(* where the code lets uint32 arithmetic wrap around it (Sub32, Add32)      *)
(* wrap around U32Max in the same way.                                      *)
(***************************************************************************)
EXTENDS Integers, Sequences, FiniteSets, TLC

VARIABLES
    phase,      \* position of the driver: "adding", "flushed", "opened", ...
    w,          \* the Writer
    accepted,   \* history: the Add calls that returned nil and were not skipped
    ncalls,     \* history: number of Add calls made
    last,       \* history: what the last call did
    flushRet,   \* what Flush returned: "nil" or "err"
    ix,         \* the Index returned by Open
    src1,       \* Merge's first source, an index file
    src2,       \* Merge's second source, an index file
    corpus1,    \* history: the paths and files src1 was built from
    corpus2,    \* history: the paths and files src2 was built from
    dst,        \* what Merge did: the file it wrote, or that it panicked
    qres,       \* the last query and its result
    disk        \* the environment and the index files cindex finds on disk

vars == <<phase, w, accepted, ncalls, last, flushRet, ix, src1, src2,
          corpus1, corpus2, dst, qres, disk>>

-----------------------------------------------------------------------------
(* Bounds of the model.                                                    *)

\* Number of Add calls made on one Writer.
MaxAdds == 3

\* Capacity of the Writer's in-memory posting buffer (npost in write.go is
\* 64<<20/8; the model runs the same code with a buffer of NPost entries).
NPost == 2

\* Number of files in each of the two indexes handed to Merge.
MaxMergeFiles == 2

\* Length of the fileID lists handed to PostingAnd, PostingOr and restrict.
MaxListLen == 2

-----------------------------------------------------------------------------
(* Program constants.                                                      *)

maxFileLen == 1073741824
maxLineLen == 2000
maxTextTrigrams == 20000
postEntrySize == 11
EndTrigram == 16777215
U32Max == 2147483647

magic == <<99, 115, 101, 97, 114, 99, 104, 32, 105, 110, 100, 101, 120, 32, 49, 10>>
trailerMagic == <<10, 99, 115, 101, 97, 114, 99, 104, 32, 116, 114, 97, 105, 108, 114, 10>>

-----------------------------------------------------------------------------
(* Strings, uint32 and the byte codecs.                                    *)

\* Go's s < t on strings: bytewise lexicographic order.
StrLess(s, t) ==
    \E i \in 1..Len(t) :
        /\ i <= Len(s) + 1
        /\ \A j \in 1..(i - 1) : s[j] = t[j]
        /\ (i = Len(s) + 1 \/ s[i] < t[i])

StrLeq(s, t) == s = t \/ StrLess(s, t)

\* strings.HasPrefix(s, prefix)
HasPrefix(s, prefix) ==
    /\ Len(prefix) <= Len(s)
    /\ SubSeq(s, 1, Len(prefix)) = prefix

\* strings.Contains(name, "\x00")
HasNUL(s) == \E i \in 1..Len(s) : s[i] = 0

\* The elements of the sequence v.
Elems(v) == { v[i] : i \in 1..Len(v) }

\* uint32 subtraction a - b, where b may be ^uint32(0).
Sub32(a, b) == IF b = U32Max THEN a + 1 ELSE a - b

\* uint32 addition a + d, where a may be ^uint32(0).
Add32(a, d) == IF a = U32Max THEN d - 1 ELSE a + d

\* bufWriter.writeUint32: four bytes, big-endian.
U32Bytes(x) ==
    << x \div 16777216, (x \div 65536) % 256, (x \div 256) % 256, x % 256 >>

\* bufWriter.writeTrigram: three bytes, big-endian.
TrigramBytes(t) == << (t \div 65536) % 256, (t \div 256) % 256, t % 256 >>

\* bufWriter.writeUvarint: 7 bits a byte, low bits first, 0x80 on all but the last.
RECURSIVE UvarintBytes(_)
UvarintBytes(x) ==
    IF x < 128 THEN << x >>
    ELSE << (x % 128) + 128 >> \o UvarintBytes(x \div 128)

\* The value of the varint at position i of d (1-based): [v |-> value,
\* n |-> bytes read], n = 0 when d ends inside the varint.
RECURSIVE UvarintValue(_, _)
UvarintValue(d, i) ==
    IF i > Len(d) THEN [v |-> 0, n |-> 0]
    ELSE IF d[i] < 128 THEN [v |-> d[i], n |-> 1]
    ELSE LET r == UvarintValue(d, i + 1)
         IN  IF r.n = 0 THEN r
             ELSE [v |-> (d[i] - 128) + 128 * r.v, n |-> r.n + 1]

\* The number of bytes with the bit 0x80 that d holds from position i on,
\* counted up to max.
RECURSIVE Continuations(_, _, _)
Continuations(d, i, max) ==
    IF max = 0 \/ i > Len(d) \/ d[i] < 128 THEN 0
    ELSE 1 + Continuations(d, i + 1, max - 1)

\* encoding/binary.Uvarint on the bytes of d from position i (1-based):
\* n = 0 when d ends inside the varint, n < 0 when the value overflows 64
\* bits (an eleventh byte, or a tenth byte above 1).
UvarintAt(d, i) ==
    IF Continuations(d, i, 10) = 10 THEN [v |-> 0, n |-> -11]
    ELSE IF Continuations(d, i, 10) = 9
            /\ i + 9 <= Len(d) /\ d[i + 9] > 1 THEN [v |-> 0, n |-> -10]
    ELSE UvarintValue(d, i)

\* binary.BigEndian.Uint32 of the four bytes of d from position i (1-based).
BEUint32(d, i) ==
    d[i] * 16777216 + d[i + 1] * 65536 + d[i + 2] * 256 + d[i + 3]

\* tri(x, y, z) of the tests, and the key read from a posting-list index entry.
Tri(x, y, z) == x * 65536 + y * 256 + z

-----------------------------------------------------------------------------
(* The sparse trigram set (package sparse): insertion order, no duplicates.*)

SetAdd(set, t) ==
    IF \E i \in 1..Len(set) : set[i] = t THEN set ELSE Append(set, t)

-----------------------------------------------------------------------------
(* The Writer.                                                             *)

NewWriter ==
    [ paths     |-> <<>>,   \* ix.paths
      nameData  |-> <<>>,   \* bytes written to the nameData temp file
      nameIndex |-> <<>>,   \* bytes written to the nameIndex temp file
      numName   |-> 0,
      post      |-> <<>>,   \* ix.post, entries <<trigram, fileID>>
      postCap   |-> NPost,  \* cap(ix.post)
      postFile  |-> <<>>,   \* the flushed runs, oldest first
      postIndex |-> <<>>,   \* bytes written to the postIndex temp file
      main      |-> <<>>,   \* bytes written to the main index file
      tmpLive   |-> TRUE ]  \* the temp files have not been removed

\* A validUTF8 that lets any byte follow the first byte of a sequence.
validUTF8LeadAlone(c1, c2) ==
    IF c1 < 128 THEN c2 < 128 \/ (192 <= c2 /\ c2 < 248)
    ELSE IF c1 < 192 THEN c2 < 248
    ELSE IF c1 < 248 THEN TRUE
    ELSE FALSE

\* A validUTF8 that lets any byte follow a continuation byte.
validUTF8AnyAfterContinuation(c1, c2) ==
    IF c1 < 128 THEN c2 < 128 \/ (192 <= c2 /\ c2 < 248)
    ELSE IF c1 < 192 THEN TRUE
    ELSE IF c1 < 248 THEN 128 <= c2 /\ c2 < 192
    ELSE FALSE

\* validUTF8(c1, c2)
validUTF8(c1, c2) ==
    IF c1 < 128 THEN c2 < 128 \/ (192 <= c2 /\ c2 < 248)
    ELSE IF c1 < 192 THEN c2 < 248
    ELSE IF c1 < 248 THEN 128 <= c2 /\ c2 < 192
    ELSE FALSE

\* One turn of the byte loop of Writer.Add, on byte i of content.  st holds
\* the loop's variables and skip, the reason for which the loop has
\* returned ("none" while it runs).
ScanByte(content, i, st) ==
    IF st.skip # "none" THEN st
    ELSE LET c    == content[i]
             \* tv = (tv << 8) & (1<<24 - 1); tv |= uint32(c)
             tv1  == (st.tv % 65536) * 256 + c
             n1   == st.n + 1
             set1 == IF n1 >= 3 THEN SetAdd(st.set, tv1) ELSE st.set
             ll   == st.lineLen + 1
             skip == IF ~validUTF8((tv1 \div 256) % 256, tv1 % 256)
                        THEN "invalid UTF-8"
                     ELSE IF n1 > maxFileLen THEN "file too long"
                     ELSE IF ll > maxLineLen THEN "line too long"
                     ELSE "none"
         IN  [skip |-> skip, tv |-> tv1, n |-> n1, set |-> set1,
              lineLen |-> IF c = 10 THEN 0 ELSE ll]

\* The turns of the loop on the bytes lo..hi of content, in order, up to
\* the turn in which the loop returns (the range is halved so that the
\* evaluation stays shallow on long contents).
RECURSIVE ScanRange(_, _, _, _)
ScanRange(content, lo, hi, st) ==
    IF lo > hi THEN st
    ELSE IF lo = hi THEN ScanByte(content, lo, st)
    ELSE LET s1 == ScanRange(content, lo, (lo + hi) \div 2, st)
         IN  IF s1.skip # "none" THEN s1
             ELSE ScanRange(content, ((lo + hi) \div 2) + 1, hi, s1)

\* The byte loop of Writer.Add from byte i of content on: the reason the
\* file is skipped, or "none" with the trigram set and the byte count.
ScanFrom(content, i, tv, n, lineLen, set) ==
    ScanRange(content, i, Len(content),
              [skip |-> "none", tv |-> tv, n |-> n, set |-> set, lineLen |-> lineLen])

\* Writer.addName: [err, id, w].
addName(wr, name) ==
    IF HasNUL(name) THEN [err |-> TRUE, id |-> 0, w |-> wr]
    ELSE [ err |-> FALSE,
           id  |-> wr.numName,
           w   |-> [wr EXCEPT !.nameIndex = @ \o U32Bytes(Len(wr.nameData)),
                              !.nameData  = @ \o name \o << 0 >>,
                              !.numName   = @ + 1] ]

\* postEntry order: the packed uint64 compares by trigram, then by fileID.
EntryLess(a, b) == a[1] < b[1] \/ (a[1] = b[1] /\ a[2] < b[2])

\* One round of sortPost: a stable counting sort of post on the 12 bits of
\* the trigram that start at bit shift (12 * round).
RadixKey(e, round) == IF round = 0 THEN e[1] % 4096 ELSE (e[1] \div 4096) % 4096

RECURSIVE CountingSort(_, _, _)
CountingSort(post, round, keys) ==
    IF keys = {} THEN <<>>
    ELSE LET k == CHOOSE x \in keys : \A y \in keys : x <= y
         IN  SelectSeq(post, LAMBDA e : RadixKey(e, round) = k)
             \o CountingSort(post, round, keys \ {k})

SortRound(post, round) ==
    CountingSort(post, round, {RadixKey(post[i], round) : i \in 1..Len(post)})

\* A sortPost that runs the first round only.
sortPostOneRound(post) == SortRound(post, 0)

\* A sortPost that sorts on the high 12 bits first.
sortPostHighFirst(post) == SortRound(SortRound(post, 1), 0)

\* sortPost
sortPost(post) == SortRound(SortRound(post, 0), 1)

\* Writer.flushPost, when the temporary file can be created and written.
flushPost(wr) ==
    [wr EXCEPT !.postFile = Append(@, sortPost(wr.post)), !.post = <<>>]

\* The loop of Writer.Add over ix.trigram.Dense(), from the k-th trigram on.
\* tmpOK: whether flushPost can create its temporary file during this call.
RECURSIVE AppendPost(_, _, _, _, _)
AppendPost(wr, tris, k, fileID, tmpOK) ==
    IF k > Len(tris) THEN [err |-> FALSE, w |-> wr]
    ELSE IF Len(wr.post) >= wr.postCap /\ ~tmpOK THEN [err |-> TRUE, w |-> wr]
    ELSE LET w1 == IF Len(wr.post) >= wr.postCap THEN flushPost(wr) ELSE wr
         IN  AppendPost([w1 EXCEPT !.post = Append(@, << tris[k], fileID >>)],
                        tris, k + 1, fileID, tmpOK)

\* An Add that records the name before it decides to skip the file.
WriterAddNameFirst(wr, name, content, readOK, tmpOK) ==
    LET scan == ScanFrom(content, 1, 0, 0, 0, <<>>)
        an   == addName(wr, name)
        ap   == AppendPost(an.w, scan.set, 1, an.id, tmpOK)
    IN  IF an.err \/ ~readOK
           THEN [w |-> wr, ret |-> "err", did |-> "failed", skip |-> "none", id |-> 0]
        ELSE IF scan.skip # "none" \/ Len(scan.set) > maxTextTrigrams
           THEN [w |-> an.w, ret |-> "nil", did |-> "skipped",
                 skip |-> IF scan.skip # "none" THEN scan.skip
                          ELSE "too many trigrams",
                 id |-> 0]
        ELSE IF ap.err
           THEN [w |-> ap.w, ret |-> "err", did |-> "failed", skip |-> "none",
                 id |-> an.id]
        ELSE [w |-> ap.w, ret |-> "nil", did |-> "added", skip |-> "none",
              id |-> an.id]

\* Writer.Add(name, f).  The reader f delivers content and then io.EOF
\* (readOK) or an error.  Result: the writer after the call, what the call
\* returned ("nil" or "err"), what it did, the reason it logs when it skips
\* the file, and the fileID it assigned.
WriterAdd(wr, name, content, readOK, tmpOK) ==
    LET scan == ScanFrom(content, 1, 0, 0, 0, <<>>)
        an   == addName(wr, name)
        ap   == AppendPost(an.w, scan.set, 1, an.id, tmpOK)
    IN  IF scan.skip # "none"
           THEN [w |-> wr, ret |-> "nil", did |-> "skipped", skip |-> scan.skip,
                 id |-> 0]
        ELSE IF ~readOK
           THEN [w |-> wr, ret |-> "err", did |-> "failed", skip |-> "none", id |-> 0]
        ELSE IF Len(scan.set) > maxTextTrigrams
           THEN [w |-> wr, ret |-> "nil", did |-> "skipped",
                 skip |-> "too many trigrams", id |-> 0]
        ELSE IF an.err
           THEN [w |-> wr, ret |-> "err", did |-> "failed", skip |-> "none", id |-> 0]
        ELSE IF ap.err
           THEN [w |-> ap.w, ret |-> "err", did |-> "failed", skip |-> "none",
                 id |-> an.id]
        ELSE [w |-> ap.w, ret |-> "nil", did |-> "added", skip |-> "none",
              id |-> an.id]

-----------------------------------------------------------------------------
(* The heap of posting chunks.  A chunk is [e |-> next entry, m |-> the    *)
(* entries after e]; h.ch is a sequence whose element i (from 0) is         *)
(* ch[i + 1].                                                              *)

HSwap(ch, i, j) == [ch EXCEPT ![i + 1] = ch[j + 1], ![j + 1] = ch[i + 1]]

\* postHeap.siftDown
RECURSIVE siftDown(_, _)
siftDown(ch, i) ==
    LET j1 == 2 * i + 1
        j2 == j1 + 1
        j  == IF j2 < Len(ch) /\ ~EntryLess(ch[j1 + 1].e, ch[j2 + 1].e)
              THEN j2 ELSE j1
    IN  IF j1 >= Len(ch) THEN ch
        ELSE IF EntryLess(ch[i + 1].e, ch[j + 1].e) THEN ch
        ELSE siftDown(HSwap(ch, i, j), j)

\* postHeap.siftUp; Go's (j - 1) / 2 truncates towards zero.
RECURSIVE siftUp(_, _)
siftUp(ch, j) ==
    LET i == IF j = 0 THEN 0 ELSE (j - 1) \div 2
    IN  IF i = j \/ EntryLess(ch[i + 1].e, ch[j + 1].e) THEN ch
        ELSE siftUp(HSwap(ch, i, j), i)

\* postHeap.push
heapPush(ch, c) ==
    LET n == Len(ch)
    IN  IF n + 1 >= 2 THEN siftUp(Append(ch, c), n) ELSE Append(ch, c)

\* postHeap.add (addMem, and addFile of a run that is read back as written)
heapAdd(ch, m) ==
    IF Len(m) > 0 THEN heapPush(ch, [e |-> m[1], m |-> Tail(m)]) ELSE ch

\* postHeap.pop (the heap that is left)
heapPop(ch) ==
    LET n  == Len(ch) - 1
        c1 == SubSeq([ch EXCEPT ![1] = ch[n + 1]], 1, n)
    IN  IF n > 1 THEN siftDown(c1, 0) ELSE c1

\* postHeap.next: [e |-> the entry returned, ch |-> the heap that is left]
heapNext(ch) ==
    IF Len(ch) = 0 THEN [e |-> << EndTrigram, 0 >>, ch |-> ch]
    ELSE IF Len(ch[1].m) = 0 THEN [e |-> ch[1].e, ch |-> heapPop(ch)]
    ELSE [ e  |-> ch[1].e,
           ch |-> siftDown([ch EXCEPT ![1] = [e |-> ch[1].m[1],
                                             m |-> Tail(ch[1].m)]], 0) ]

RECURSIVE HeapOfRuns(_, _)
HeapOfRuns(ch, runs) ==
    IF runs = <<>> THEN ch ELSE HeapOfRuns(heapAdd(ch, Head(runs)), Tail(runs))

-----------------------------------------------------------------------------
(* Writer.mergePost and Writer.Flush.                                      *)

\* The inner loop of mergePost: the deltas of one posting list.
RECURSIVE MergePostList(_, _, _, _, _, _)
MergePostList(ch, e, trigram, fileID, nfile, out) ==
    IF e[1] = trigram /\ trigram # EndTrigram
    THEN LET nx == heapNext(ch)
         IN  MergePostList(nx.ch, nx.e, trigram, e[2], nfile + 1,
                           out \o UvarintBytes(Sub32(e[2], fileID)))
    ELSE [ch |-> ch, e |-> e, nfile |-> nfile, out |-> out]

\* The outer loop of mergePost: one posting list and its index entry a turn.
RECURSIVE MergePostLoop(_, _, _, _, _)
MergePostLoop(ch, e, out, pidx, offset0) ==
    LET offset  == Len(out) - offset0
        trigram == e[1]
        l       == MergePostList(ch, e, trigram, U32Max, 0,
                                 out \o TrigramBytes(trigram))
        out1    == l.out \o UvarintBytes(0)
        pidx1   == pidx \o TrigramBytes(trigram) \o U32Bytes(l.nfile)
                        \o U32Bytes(offset)
    IN  IF trigram = EndTrigram THEN [out |-> out1, postIndex |-> pidx1]
        ELSE MergePostLoop(l.ch, l.e, out1, pidx1, offset0)

\* Writer.mergePost(out): the writer with the posting lists appended to
\* main and their index entries to postIndex.
mergePost(wr) ==
    LET sorted == sortPost(wr.post)
        h      == heapAdd(HeapOfRuns(<<>>, wr.postFile), sorted)
        nx     == heapNext(h)
        r      == MergePostLoop(nx.ch, nx.e, wr.main, wr.postIndex, Len(wr.main))
    IN  [wr EXCEPT !.post = sorted, !.main = r.out, !.postIndex = r.postIndex]

RECURSIVE PathBytes(_)
PathBytes(paths) ==
    IF paths = <<>> THEN <<>>
    ELSE Head(paths) \o << 0 >> \o PathBytes(Tail(paths))

\* The steps of Flush that can fail, in the order Flush takes them.
FlushSteps == << "addName", "magic", "paths", "nameData", "mergePost",
                 "nameIndex", "postIndex", "trailer", "flush" >>

\* What Flush returns when the step fails.
FlushReturns(fail) ==
    IF fail \in {"nameData", "mergePost", "nameIndex", "postIndex"}
    THEN "nil"      \* write.go lines 234-248: if err != nil { return nil }
    ELSE IF fail = "none" THEN "nil" ELSE "err"

\* The writer after step s of Flush; off is Flush's array off, from 1.
FlushStep(s, wr, off) ==
    CASE s = "addName"   -> addName(wr, <<>>).w
      [] s = "magic"     -> [wr EXCEPT !.main = @ \o magic]
      [] s = "paths"     -> [wr EXCEPT !.main = @ \o PathBytes(wr.paths) \o << 0 >>]
      [] s = "nameData"  -> [wr EXCEPT !.main = @ \o wr.nameData]
      [] s = "mergePost" -> mergePost(wr)
      [] s = "nameIndex" -> [wr EXCEPT !.main = @ \o wr.nameIndex]
      [] s = "postIndex" -> [wr EXCEPT !.main = @ \o wr.postIndex]
      [] s = "trailer"   ->
            [wr EXCEPT !.main = @ \o U32Bytes(off[1]) \o U32Bytes(off[2])
                                  \o U32Bytes(off[3]) \o U32Bytes(off[4])
                                  \o U32Bytes(off[5]) \o trailerMagic,
                       !.tmpLive = FALSE]
      [] s = "flush"     -> wr

\* off[k] = ix.main.offset() is taken after the step before it.
OffsetAfter(s, wr, off) ==
    CASE s = "magic"     -> [off EXCEPT ![1] = Len(wr.main)]
      [] s = "paths"     -> [off EXCEPT ![2] = Len(wr.main)]
      [] s = "nameData"  -> [off EXCEPT ![3] = Len(wr.main)]
      [] s = "mergePost" -> [off EXCEPT ![4] = Len(wr.main)]
      [] s = "nameIndex" -> [off EXCEPT ![5] = Len(wr.main)]
      [] OTHER           -> off

\* Flush from its k-th step on, up to the step that fails.  When the last
\* flush fails, the trailer is still in main's buffer and not in the file.
RECURSIVE FlushFrom(_, _, _, _)
FlushFrom(k, wr, off, fail) ==
    IF k > Len(FlushSteps) THEN wr
    ELSE IF FlushSteps[k] = fail
         THEN IF fail = "flush"
              THEN [wr EXCEPT !.main = SubSeq(@, 1, Len(@) - 5 * 4 - Len(trailerMagic))]
              ELSE wr
    ELSE FlushFrom(k + 1, FlushStep(FlushSteps[k], wr, off),
                   OffsetAfter(FlushSteps[k], FlushStep(FlushSteps[k], wr, off), off),
                   fail)

\* Writer.Flush, with the step that fails (or "none").  The writer it leaves
\* has in main the bytes of the index file on disk when Flush returns.
WriterFlush(wr, fail) ==
    [w |-> FlushFrom(1, wr, << 0, 0, 0, 0, 0 >>, fail), ret |-> FlushReturns(fail)]

-----------------------------------------------------------------------------
(* The Index (read.go).  ix.d is the mapped file; offsets count from 0, so  *)
(* the byte at offset o is ix.d[o + 1].                                     *)

NoIndex == [ok |-> FALSE]

\* Open when the slice expression of Index.slice panics.
OpenPanic == [ok |-> FALSE, panic |-> TRUE]

\* int(uint32(a - b) / q) for a, b below 2^31: the difference wraps at 2^32
\* (2^32 - k is U32Max + (U32Max - k) + 2).
U32SubDiv(a, b, q) ==
    IF a >= b THEN (a - b) \div q
    ELSE LET x == U32Max - (b - a)
         IN  (U32Max \div q) + (x \div q) + (((U32Max % q) + (x % q) + 2) \div q)

\* Open(file) in a build whose int has intBits bits: the Index, NoIndex when
\* Open returns an error, OpenPanic when it panics.  For a file of 32 to 35
\* bytes n wraps to 2^32 - k; ix.uint32(n) then fails in slice where int
\* has 64 bits, and where it has 32 bits int(off) is -k and d[-k : 4-k]
\* panics.
OpenBuild(d, intBits) ==
    LET n == Len(d) - Len(trailerMagic) - 5 * 4
    IN  IF Len(d) < 4 * 4 + Len(trailerMagic)
           \/ SubSeq(d, Len(d) - Len(trailerMagic) + 1, Len(d)) # trailerMagic
        THEN NoIndex
        ELSE IF n < 0 THEN (IF intBits = 32 THEN OpenPanic ELSE NoIndex)
        ELSE LET pathData  == BEUint32(d, n + 1)
                 nameData  == BEUint32(d, n + 5)
                 postData  == BEUint32(d, n + 9)
                 nameIndex == BEUint32(d, n + 13)
                 postIndex == BEUint32(d, n + 17)
             IN  [ ok        |-> TRUE,
                   d         |-> d,
                   pathData  |-> pathData,
                   nameData  |-> nameData,
                   postData  |-> postData,
                   nameIndex |-> nameIndex,
                   postIndex |-> postIndex,
                   numName   |-> U32SubDiv(postIndex, nameIndex, 4) - 1,
                   numPost   |-> U32SubDiv(n, postIndex, postEntrySize) ]

\* Open(file): the builds agree on every file of 36 bytes or more.
Open(d) == OpenBuild(d, 64)

\* Index.str(off): the bytes from off up to the next NUL;
\* [err |-> TRUE] when there is none.
IndexStr(x, off) ==
    LET nuls == {i \in (off + 1)..Len(x.d) : x.d[i] = 0}
    IN  IF nuls = {} THEN [err |-> TRUE, s |-> <<>>]
        ELSE LET i == CHOOSE k \in nuls : \A m \in nuls : k <= m
             IN  [err |-> FALSE, s |-> SubSeq(x.d, off + 1, i - 1)]

\* Index.uint32(off)
IndexUint32(x, off) ==
    IF off + 4 > Len(x.d) THEN [err |-> TRUE, v |-> 0]
    ELSE [err |-> FALSE, v |-> BEUint32(x.d, off + 1)]

\* Index.Name(fileID)
IndexName(x, fileID) ==
    IF fileID > x.numName THEN [err |-> TRUE, s |-> <<>>]
    ELSE LET off == IndexUint32(x, x.nameIndex + 4 * fileID)
         IN  IF off.err THEN [err |-> TRUE, s |-> <<>>]
             ELSE IndexStr(x, x.nameData + off.v)

\* Index.Names(): the names of the fileIDs 0..numName-1 (<<>> with err on
\* the first one that cannot be read).
IndexNames(x) ==
    IF \E i \in 0..(x.numName - 1) : IndexName(x, i).err
    THEN [err |-> TRUE, names |-> <<>>]
    ELSE [err |-> FALSE, names |-> [i \in 1..x.numName |-> IndexName(x, i - 1).s]]

\* Index.Paths(): the strings read from off until an empty one.
RECURSIVE PathsFrom(_, _)
PathsFrom(x, off) ==
    LET s == IndexStr(x, off)
    IN  IF s.err THEN [err |-> TRUE, paths |-> <<>>]
        ELSE IF Len(s.s) = 0 THEN [err |-> FALSE, paths |-> <<>>]
        ELSE LET rest == PathsFrom(x, off + Len(s.s) + 1)
             IN  [err |-> rest.err,
                  paths |-> IF rest.err THEN <<>> ELSE << s.s >> \o rest.paths]

IndexPaths(x) == PathsFrom(x, x.pathData)

\* The trigram of the i-th entry (from 0) of the posting-list index.
EntryTrigram(x, i) ==
    LET j == x.postIndex + i * postEntrySize
    IN  Tri(x.d[j + 1], x.d[j + 2], x.d[j + 3])

\* Index.listAt(i * postEntrySize)
listAt(x, i) ==
    LET j == x.postIndex + i * postEntrySize
    IN  [ trigram |-> EntryTrigram(x, i),
          count   |-> BEUint32(x.d, j + 4),
          offset  |-> BEUint32(x.d, j + 8) ]

\* sort.Search(n, f) for f(i) = (trigram of entry i >= trigram).
RECURSIVE SearchEntry(_, _, _, _)
SearchEntry(x, trigram, lo, hi) ==
    IF lo >= hi THEN lo
    ELSE LET h == (lo + hi) \div 2
         IN  IF ~(EntryTrigram(x, h) >= trigram)
             THEN SearchEntry(x, trigram, h + 1, hi)
             ELSE SearchEntry(x, trigram, lo, h)

\* Index.findList(trigram): [count, offset, err]
findList(x, trigram) ==
    \* ix.slice(ix.postIndex, postEntrySize*ix.numPost): o+n > len(ix.data.d)
    IF x.numPost > (Len(x.d) - x.postIndex) \div postEntrySize
    THEN [count |-> 0, offset |-> 0, err |-> TRUE]
    ELSE LET i == SearchEntry(x, trigram, 0, x.numPost)
         IN  IF i >= x.numPost \/ EntryTrigram(x, i) # trigram
             THEN [count |-> 0, offset |-> 0, err |-> FALSE]
             ELSE [count |-> listAt(x, i).count, offset |-> listAt(x, i).offset,
                   err |-> FALSE]

-----------------------------------------------------------------------------
(* The posting cursor and the posting queries (read.go).  A Go slice of     *)
(* fileIDs is [nil |-> whether it is the nil slice, v |-> its elements].    *)

NilList == [nil |-> TRUE, v |-> <<>>]
MkList(v) == [nil |-> FALSE, v |-> v]

\* The zero postReader: what postingAnd and postingOr read from when
\* postReader.init returns before it sets the fields.
ZeroReader ==
    [count |-> 0, fileID |-> 0, pos |-> 0, dnil |-> TRUE, restrict |-> NilList]

\* postReader.init: r.d is ix.d from position pos (1-based) on.
readerInit(x, trigram, restrict) ==
    LET f == findList(x, trigram)
    IN  IF f.count = 0 \/ f.err THEN [err |-> f.err, r |-> ZeroReader]
        ELSE [ err |-> FALSE,
               r   |-> [ count    |-> f.count,
                         fileID   |-> U32Max,
                         pos      |-> x.postData + f.offset + 3 + 1,
                         dnil     |-> FALSE,
                         restrict |-> restrict ] ]

\* A restrict that is never advanced.
DropNone(v, fileID) == v

\* restrict[i:] for the first i with restrict[i] >= fileID
RECURSIVE DropLess(_, _)
DropLess(v, fileID) ==
    IF v # <<>> /\ Head(v) < fileID THEN DropLess(Tail(v), fileID) ELSE v

\* A next that does not look for the terminating zero.
RECURSIVE readerNextNoTerminator(_, _)
readerNextNoTerminator(x, r) ==
    IF r.count > 0
    THEN LET u == UvarintAt(x.d, r.pos)
         IN  IF u.n <= 0 \/ u.v = 0 THEN [ok |-> FALSE, err |-> TRUE, r |-> r]
             ELSE LET fid  == Add32(r.fileID, u.v)
                      r1   == [r EXCEPT !.count = @ - 1, !.pos = @ + u.n,
                                        !.fileID = fid]
                      rest == DropLess(r.restrict.v, fid)
                      r2   == [r1 EXCEPT !.restrict = MkList(rest)]
                  IN  IF r.restrict.nil
                         THEN [ok |-> TRUE, err |-> FALSE, r |-> r1]
                      ELSE IF Len(rest) = 0 \/ rest[1] # fid
                         THEN readerNextNoTerminator(x, r2)
                      ELSE [ok |-> TRUE, err |-> FALSE, r |-> r2]
    ELSE [ok |-> FALSE, err |-> FALSE, r |-> [r EXCEPT !.fileID = U32Max]]

\* postReader.next: [ok, err, r]
RECURSIVE readerNext(_, _)
readerNext(x, r) ==
    IF r.count > 0
    THEN LET u == UvarintAt(x.d, r.pos)
         IN  IF u.n <= 0 \/ u.v = 0 THEN [ok |-> FALSE, err |-> TRUE, r |-> r]
             ELSE LET fid  == Add32(r.fileID, u.v)
                      r1   == [r EXCEPT !.count = @ - 1, !.pos = @ + u.n,
                                        !.fileID = fid]
                      rest == DropLess(r.restrict.v, fid)
                      r2   == [r1 EXCEPT !.restrict = MkList(rest)]
                  IN  IF r.restrict.nil
                         THEN [ok |-> TRUE, err |-> FALSE, r |-> r1]
                      ELSE IF Len(rest) = 0 \/ rest[1] # fid
                         THEN readerNext(x, r2)
                      ELSE [ok |-> TRUE, err |-> FALSE, r |-> r2]
    ELSE IF ~r.dnil /\ (r.pos > Len(x.d) \/ x.d[r.pos] # 0)
         THEN [ok |-> FALSE, err |-> TRUE, r |-> r]
    ELSE [ok |-> FALSE, err |-> FALSE, r |-> [r EXCEPT !.fileID = U32Max]]

\* The loop of postingList: [err, list]
RECURSIVE ListLoop(_, _, _)
ListLoop(x, r, acc) ==
    LET nx == readerNext(x, r)
    IN  IF nx.err THEN [err |-> TRUE, list |-> NilList]
        ELSE IF ~nx.ok THEN [err |-> FALSE, list |-> MkList(acc)]
        ELSE ListLoop(x, nx.r, Append(acc, nx.r.fileID))

\* Index.postingList(trigram, restrict)
postingList(x, trigram, restrict) ==
    LET in == readerInit(x, trigram, restrict)
    IN  IF in.err THEN [err |-> TRUE, list |-> NilList]
        ELSE ListLoop(x, in.r, <<>>)

\* A scan of list that never skips an element.
SkipNone(list, i, fileID) == i

\* The number of elements of list from position i (from 0) that are < fileID.
RECURSIVE SkipLess(_, _, _)
SkipLess(list, i, fileID) ==
    IF i < Len(list) /\ list[i + 1] < fileID THEN SkipLess(list, i + 1, fileID)
    ELSE i

\* The loop of postingAnd
RECURSIVE AndLoop(_, _, _, _, _)
AndLoop(x, r, list, i, acc) ==
    LET nx == readerNext(x, r)
        i1 == SkipLess(list, i, nx.r.fileID)
    IN  IF nx.err THEN [err |-> TRUE, v |-> <<>>]
        ELSE IF ~nx.ok THEN [err |-> FALSE, v |-> acc]
        ELSE IF i1 < Len(list) /\ list[i1 + 1] = nx.r.fileID
             THEN AndLoop(x, nx.r, list, i1 + 1, Append(acc, nx.r.fileID))
        ELSE AndLoop(x, nx.r, list, i1, acc)

\* Index.postingAnd(list, trigram, restrict); the error of r.init is dropped.
postingAnd(x, list, trigram, restrict) ==
    LET in == readerInit(x, trigram, restrict)
        l  == AndLoop(x, in.r, list.v, 0, <<>>)
    IN  IF l.err THEN [err |-> TRUE, list |-> NilList]
        ELSE [err |-> FALSE, list |-> [nil |-> list.nil, v |-> l.v]]

\* The loop of postingOr
RECURSIVE OrLoop(_, _, _, _, _)
OrLoop(x, r, list, i, acc) ==
    LET nx == readerNext(x, r)
        i1 == SkipLess(list, i, nx.r.fileID)
    IN  IF nx.err THEN [err |-> TRUE, v |-> <<>>]
        ELSE IF ~nx.ok
             THEN [err |-> FALSE, v |-> acc \o SubSeq(list, i + 1, Len(list))]
        ELSE OrLoop(x, nx.r, list,
                    IF i1 < Len(list) /\ list[i1 + 1] = nx.r.fileID
                    THEN i1 + 1 ELSE i1,
                    acc \o SubSeq(list, i + 1, i1) \o << nx.r.fileID >>)

\* A postingOr that appends the posting list to list.
postingOrAppend(x, list, trigram, restrict) ==
    [err |-> FALSE,
     list |-> MkList(list.v \o postingList(x, trigram, restrict).list.v)]

\* Index.postingOr(list, trigram, restrict); the error of r.init is dropped.
postingOr(x, list, trigram, restrict) ==
    LET in == readerInit(x, trigram, restrict)
        l  == OrLoop(x, in.r, list.v, 0, <<>>)
    IN  IF l.err THEN [err |-> TRUE, list |-> NilList]
        ELSE [err |-> FALSE, list |-> MkList(l.v)]

\* The loop of mergeOr from positions i and j (from 0)
RECURSIVE MergeOrLoop(_, _, _, _, _)
MergeOrLoop(l1, l2, i, j, l) ==
    IF ~(i < Len(l1) \/ j < Len(l2)) THEN l
    ELSE IF j = Len(l2) \/ (i < Len(l1) /\ l1[i + 1] < l2[j + 1])
         THEN MergeOrLoop(l1, l2, i + 1, j, Append(l, l1[i + 1]))
    ELSE IF i = Len(l1) \/ (j < Len(l2) /\ l1[i + 1] > l2[j + 1])
         THEN MergeOrLoop(l1, l2, i, j + 1, Append(l, l2[j + 1]))
    ELSE MergeOrLoop(l1, l2, i + 1, j + 1, Append(l, l1[i + 1]))

\* A mergeOr that appends l2 to l1.
mergeOrConcat(l1, l2) == [nil |-> l1.v \o l2.v = <<>>, v |-> l1.v \o l2.v]

\* mergeOr(l1, l2): the result is the nil slice when nothing is appended.
mergeOr(l1, l2) ==
    LET l == MergeOrLoop(l1.v, l2.v, 0, 0, <<>>)
    IN  [nil |-> l = <<>>, v |-> l]

\* A Query is [op, trigram, sub]: op one of "QAll", "QNone", "QAnd", "QOr",
\* trigram a sequence of 3-byte strings, sub a sequence of queries.
QTri(t) == Tri(t[1], t[2], t[3])

\* Index.postingQuery(q, restrict): [err, list]
RECURSIVE postingQuery(_, _, _)
RECURSIVE AndTrigrams(_, _, _, _, _)
RECURSIVE AndSubs(_, _, _, _, _)
RECURSIVE OrTrigrams(_, _, _, _, _)
RECURSIVE OrSubs(_, _, _, _, _)

\* case QAnd: for _, t := range q.Trigram, from the k-th trigram on
AndTrigrams(x, q, k, list, restrict) ==
    IF k > Len(q.trigram) THEN AndSubs(x, q, 1, list, restrict)
    ELSE LET r == IF list.nil
                  THEN postingList(x, QTri(q.trigram[k]), restrict)
                  ELSE postingAnd(x, list, QTri(q.trigram[k]), restrict)
         IN  IF Len(r.list.v) = 0 \/ r.err
             THEN [err |-> r.err, list |-> NilList]
             ELSE AndTrigrams(x, q, k + 1, r.list, restrict)

\* case QAnd: for _, sub := range q.Sub, from the k-th sub-query on
AndSubs(x, q, k, list, restrict) ==
    IF k > Len(q.sub) THEN [err |-> FALSE, list |-> list]
    ELSE LET l0 == IF list.nil THEN restrict ELSE list
             r  == postingQuery(x, q.sub[k], l0)
         IN  IF Len(r.list.v) = 0 \/ r.err
             THEN [err |-> r.err, list |-> NilList]
             ELSE AndSubs(x, q, k + 1, r.list, restrict)

\* case QOr: for _, t := range q.Trigram, from the k-th trigram on
OrTrigrams(x, q, k, list, restrict) ==
    IF k > Len(q.trigram) THEN OrSubs(x, q, 1, list, restrict)
    ELSE LET r == IF list.nil
                  THEN postingList(x, QTri(q.trigram[k]), restrict)
                  ELSE postingOr(x, list, QTri(q.trigram[k]), restrict)
         IN  IF r.err THEN [err |-> TRUE, list |-> NilList]
             ELSE OrTrigrams(x, q, k + 1, r.list, restrict)

\* case QOr: for _, sub := range q.Sub, from the k-th sub-query on
OrSubs(x, q, k, list, restrict) ==
    IF k > Len(q.sub) THEN [err |-> FALSE, list |-> list]
    ELSE LET r == postingQuery(x, q.sub[k], restrict)
         IN  IF r.err THEN [err |-> TRUE, list |-> NilList]
             ELSE OrSubs(x, q, k + 1, mergeOr(list, r.list), restrict)

postingQuery(x, q, restrict) ==
    CASE q.op = "QNone" -> [err |-> FALSE, list |-> NilList]
      [] q.op = "QAll"  ->
            IF ~restrict.nil THEN [err |-> FALSE, list |-> restrict]
            ELSE [err |-> FALSE,
                  list |-> MkList([i \in 1..x.numName |-> i - 1])]
      [] q.op = "QAnd"  -> AndTrigrams(x, q, 1, NilList, restrict)
      [] q.op = "QOr"   -> OrTrigrams(x, q, 1, NilList, restrict)

-----------------------------------------------------------------------------
(* Merge (merge.go), for a run in which every read and write succeeds.     *)
(* An idRange is [lo, hi, new]: [lo, hi) maps to [new, new + hi - lo).      *)

\* limit := path[:len(path)-1] + string(path[len(path)-1]+1): the byte sum
\* wraps at 256, and string() of a byte is the UTF-8 encoding of that rune.
Limit(path) ==
    LET c == (path[Len(path)] + 1) % 256
    IN  SubSeq(path, 1, Len(path) - 1)
        \o (IF c < 128 THEN << c >> ELSE << 192 + (c \div 64), 128 + (c % 64) >>)

\* for i < numName { if Name(i) >= bound { break }; i++ }
RECURSIVE NamesBelow(_, _, _)
NamesBelow(x, i, bound) ==
    IF i < x.numName /\ ~IndexName(x, i).err /\ StrLess(IndexName(x, i).s, bound)
    THEN NamesBelow(x, i + 1, bound)
    ELSE i

\* The loop over paths2 when new is not advanced past a range of src2.
RECURSIVE BuildMapsNoAdvance(_, _, _, _, _)
BuildMapsNoAdvance(x1, x2, paths2, k, st) ==
    IF k > Len(paths2) THEN st
    ELSE LET path  == paths2[k]
             old   == st.i1
             lo    == NamesBelow(x1, st.i1, path)
             limit == Limit(path)
             hi    == NamesBelow(x1, lo, limit)
             map1  == IF old < lo
                      THEN Append(st.map1, [lo |-> old, hi |-> lo, new |-> st.new])
                      ELSE st.map1
             new1  == IF old < lo THEN st.new + (lo - old) ELSE st.new
             lo2   == st.i2
             hi2   == NamesBelow(x2, st.i2, limit)
             map2  == IF lo2 < hi2
                      THEN Append(st.map2, [lo |-> lo2, hi |-> hi2, new |-> new1])
                      ELSE st.map2
         IN  IF st.i2 < x2.numName /\ StrLess(IndexName(x2, st.i2).s, path)
             THEN [st EXCEPT !.panic = TRUE]
             ELSE BuildMapsNoAdvance(x1, x2, paths2, k + 1,
                            [panic |-> FALSE, i1 |-> hi, i2 |-> hi2, new |-> new1,
                             map1 |-> map1, map2 |-> map2])

\* The loop "for _, path := range paths2" of Merge from the k-th path on.
RECURSIVE BuildMaps(_, _, _, _, _)
BuildMaps(x1, x2, paths2, k, st) ==
    IF k > Len(paths2) THEN st
    ELSE LET path  == paths2[k]
             old   == st.i1
             lo    == NamesBelow(x1, st.i1, path)
             limit == Limit(path)
             hi    == NamesBelow(x1, lo, limit)
             map1  == IF old < lo
                      THEN Append(st.map1, [lo |-> old, hi |-> lo, new |-> st.new])
                      ELSE st.map1
             new1  == IF old < lo THEN st.new + (lo - old) ELSE st.new
             lo2   == st.i2
             hi2   == NamesBelow(x2, st.i2, limit)
             map2  == IF lo2 < hi2
                      THEN Append(st.map2, [lo |-> lo2, hi |-> hi2, new |-> new1])
                      ELSE st.map2
             new2  == IF lo2 < hi2 THEN new1 + (hi2 - lo2) ELSE new1
         IN  IF st.i2 < x2.numName /\ StrLess(IndexName(x2, st.i2).s, path)
             THEN [st EXCEPT !.panic = TRUE]
             ELSE BuildMaps(x1, x2, paths2, k + 1,
                            [panic |-> FALSE, i1 |-> hi, i2 |-> hi2, new |-> new2,
                             map1 |-> map1, map2 |-> map2])

\* DocID maps without the range of the src1 files after the last path.
IDMapsNoTail(x1, x2, paths2) ==
    LET st == BuildMaps(x1, x2, paths2, 1,
                        [panic |-> FALSE, i1 |-> 0, i2 |-> 0, new |-> 0,
                         map1 |-> <<>>, map2 |-> <<>>])
    IN  IF st.panic \/ st.i2 < x2.numName
        THEN [panic |-> TRUE, map1 |-> <<>>, map2 |-> <<>>, new |-> 0]
        ELSE [panic |-> FALSE, map1 |-> st.map1, map2 |-> st.map2, new |-> st.new]

\* The docID maps of Merge: [panic, map1, map2, new], new being numName.
IDMaps(x1, x2, paths2) ==
    LET st   == BuildMaps(x1, x2, paths2, 1,
                          [panic |-> FALSE, i1 |-> 0, i2 |-> 0, new |-> 0,
                           map1 |-> <<>>, map2 |-> <<>>])
        tail == st.i1 < x1.numName
    IN  IF st.panic \/ st.i2 < x2.numName
        THEN [panic |-> TRUE, map1 |-> <<>>, map2 |-> <<>>, new |-> 0]
        ELSE [ panic |-> FALSE,
               map1  |-> IF tail
                         THEN Append(st.map1, [lo |-> st.i1, hi |-> x1.numName,
                                               new |-> st.new])
                         ELSE st.map1,
               map2  |-> st.map2,
               new   |-> IF tail THEN st.new + (x1.numName - st.i1) ELSE st.new ]

\* The merged list of paths when only a repeated path is dropped.
RECURSIVE MergePathsKeepChildren(_, _, _, _, _)
MergePathsKeepChildren(paths1, paths2, mi1, mi2, lastp) ==
    IF ~(mi1 < Len(paths1) \/ mi2 < Len(paths2)) THEN <<>>
    ELSE LET first == mi2 >= Len(paths2)
                      \/ (mi1 < Len(paths1)
                          /\ StrLeq(paths1[mi1 + 1], paths2[mi2 + 1]))
             p     == IF first THEN paths1[mi1 + 1] ELSE paths2[mi2 + 1]
             n1    == IF first THEN mi1 + 1 ELSE mi1
             n2    == IF first THEN mi2 ELSE mi2 + 1
         IN  IF p = lastp
             THEN MergePathsKeepChildren(paths1, paths2, n1, n2, lastp)
             ELSE << p >> \o MergePathsKeepChildren(paths1, paths2, n1, n2, p)

\* The merged list of paths, from positions mi1 and mi2 (from 0) on.
RECURSIVE MergePaths(_, _, _, _, _)
MergePaths(paths1, paths2, mi1, mi2, lastp) ==
    IF ~(mi1 < Len(paths1) \/ mi2 < Len(paths2)) THEN <<>>
    ELSE LET first == mi2 >= Len(paths2)
                      \/ (mi1 < Len(paths1)
                          /\ StrLeq(paths1[mi1 + 1], paths2[mi2 + 1]))
             p     == IF first THEN paths1[mi1 + 1] ELSE paths2[mi2 + 1]
             n1    == IF first THEN mi1 + 1 ELSE mi1
             n2    == IF first THEN mi2 ELSE mi2 + 1
         IN  IF HasPrefix(p, lastp)
             THEN MergePaths(paths1, paths2, n1, n2, lastp)
             ELSE << p >> \o MergePaths(paths1, paths2, n1, n2, p)

\* The names of the fileIDs lo..hi-1 of x, each with its entry of the name
\* index: out is ix3 from nameData on, idx the name index file.
RECURSIVE CopyNames(_, _, _, _)
CopyNames(x, i, hi, acc) ==
    IF i >= hi THEN acc
    ELSE CopyNames(x, i + 1, hi,
                   [out |-> acc.out \o IndexName(x, i).s \o << 0 >>,
                    idx |-> acc.idx \o U32Bytes(Len(acc.out))])

\* The loop "for new < numName" of Merge.
RECURSIVE MergeNames(_, _, _, _, _, _, _)
MergeNames(x1, x2, maps, new, mi1, mi2, acc) ==
    IF new >= maps.new THEN [panic |-> FALSE, out |-> acc.out, idx |-> acc.idx]
    ELSE IF mi1 < Len(maps.map1) /\ maps.map1[mi1 + 1].new = new
         THEN LET r == maps.map1[mi1 + 1]
              IN  MergeNames(x1, x2, maps, new + (r.hi - r.lo), mi1 + 1, mi2,
                             CopyNames(x1, r.lo, r.hi, acc))
    ELSE IF mi2 < Len(maps.map2) /\ maps.map2[mi2 + 1].new = new
         THEN LET r == maps.map2[mi2 + 1]
              IN  MergeNames(x1, x2, maps, new + (r.hi - r.lo), mi1, mi2 + 1,
                             CopyNames(x2, r.lo, r.hi, acc))
    ELSE [panic |-> TRUE, out |-> acc.out, idx |-> acc.idx]

\* postMapReader.load
pmLoad(x, r) ==
    IF r.triNum >= x.numPost
    THEN [r EXCEPT !.trigram = U32Max, !.count = 0, !.fileID = U32Max]
    ELSE LET e  == listAt(x, r.triNum)
             r1 == [r EXCEPT !.trigram = e.trigram, !.count = e.count,
                             !.offset = e.offset]
         IN  IF e.count = 0 THEN [r1 EXCEPT !.fileID = U32Max]
             ELSE [r1 EXCEPT !.pos = x.postData + e.offset + 3 + 1,
                             !.oldID = U32Max, !.i = 0]

\* postMapReader.init
pmInit(x) ==
    pmLoad(x, [triNum |-> 0, trigram |-> U32Max, count |-> 0, offset |-> 0,
               pos |-> 0, oldID |-> 0, fileID |-> 0, i |-> 0])

\* postMapReader.nextTrigram
pmNextTrigram(x, r) == pmLoad(x, [r EXCEPT !.triNum = @ + 1])

\* for r.i < len(r.idMap) && r.idMap[r.i].hi <= r.oldID { r.i++ }
RECURSIVE SkipRanges(_, _, _)
SkipRanges(idMap, i, oldID) ==
    IF i < Len(idMap) /\ idMap[i + 1].hi <= oldID
    THEN SkipRanges(idMap, i + 1, oldID) ELSE i

\* postMapReader.nextID: [ok, err, r]
RECURSIVE pmNextID(_, _, _)
pmNextID(x, idMap, r) ==
    IF r.count > 0
    THEN LET u     == UvarintAt(x.d, r.pos)
             oldID == Add32(r.oldID, u.v)
             i     == SkipRanges(idMap, r.i, oldID)
             r1    == [r EXCEPT !.count = @ - 1, !.pos = @ + u.n,
                                !.oldID = oldID, !.i = i]
         IN  IF u.n <= 0 \/ u.v = 0
                THEN [ok |-> FALSE, err |-> TRUE, r |-> [r EXCEPT !.count = @ - 1]]
             ELSE IF i >= Len(idMap)
                THEN [ok |-> FALSE, err |-> FALSE,
                      r |-> [r1 EXCEPT !.count = 0, !.fileID = U32Max]]
             ELSE IF oldID < idMap[i + 1].lo THEN pmNextID(x, idMap, r1)
             ELSE [ok |-> TRUE, err |-> FALSE,
                   r |-> [r1 EXCEPT !.fileID = idMap[i + 1].new + oldID
                                               - idMap[i + 1].lo]]
    ELSE [ok |-> FALSE, err |-> FALSE, r |-> [r EXCEPT !.fileID = U32Max]]

\* postDataWriter.trigram
pwTrigram(pw, t) ==
    [pw EXCEPT !.offset = Len(pw.out), !.count = 0, !.t = t, !.last = U32Max]

\* A fileID that does not remember the ID it wrote.
pwFileIDKeepLast(pw, id) ==
    [pw EXCEPT !.out   = (IF pw.count = 0 THEN @ \o TrigramBytes(pw.t) ELSE @)
                         \o UvarintBytes(Sub32(id, pw.last)),
               !.count = @ + 1]

\* postDataWriter.fileID
pwFileID(pw, id) ==
    [pw EXCEPT !.out   = (IF pw.count = 0 THEN @ \o TrigramBytes(pw.t) ELSE @)
                         \o UvarintBytes(Sub32(id, pw.last)),
               !.last  = id,
               !.count = @ + 1]

\* postDataWriter.endTrigram
pwEndTrigram(pw) ==
    IF pw.count = 0 THEN pw
    ELSE [pw EXCEPT !.out = @ \o UvarintBytes(0),
                    !.postIndexFile = @ \o TrigramBytes(pw.t) \o U32Bytes(pw.count)
                                        \o U32Bytes(pw.offset - pw.base)]

\* for { ok := r.nextID(); if !ok { break }; w.fileID(r.fileID) }
RECURSIVE CopyList(_, _, _, _)
CopyList(x, idMap, r, pw) ==
    LET nx == pmNextID(x, idMap, r)
    IN  IF nx.err THEN [err |-> TRUE, r |-> nx.r, pw |-> pw]
        ELSE IF ~nx.ok THEN [err |-> FALSE, r |-> nx.r, pw |-> pw]
        ELSE CopyList(x, idMap, nx.r, pwFileID(pw, nx.r.fileID))

\* for r1.fileID < ^uint32(0) || r2.fileID < ^uint32(0) { ... }
RECURSIVE Interleave(_, _, _, _, _, _)
Interleave(x1, x2, maps, r1, r2, pw) ==
    IF ~(r1.fileID < U32Max \/ r2.fileID < U32Max)
    THEN [panic |-> FALSE, r1 |-> r1, r2 |-> r2, pw |-> pw]
    ELSE IF r1.fileID < r2.fileID
         THEN Interleave(x1, x2, maps, pmNextID(x1, maps.map1, r1).r, r2,
                         pwFileID(pw, r1.fileID))
    ELSE IF r2.fileID < r1.fileID
         THEN Interleave(x1, x2, maps, r1, pmNextID(x2, maps.map2, r2).r,
                         pwFileID(pw, r2.fileID))
    ELSE [panic |-> TRUE, r1 |-> r1, r2 |-> r2, pw |-> pw]

\* The loop over the posting lists of Merge: [panic, err, pw]
RECURSIVE MergeLists(_, _, _, _, _, _)
MergeLists(x1, x2, maps, r1, r2, pw) ==
    IF r1.trigram < r2.trigram
    THEN LET c == CopyList(x1, maps.map1, r1, pwTrigram(pw, r1.trigram))
         IN  IF c.err THEN [panic |-> FALSE, err |-> TRUE, pw |-> c.pw]
             ELSE MergeLists(x1, x2, maps, pmNextTrigram(x1, c.r), r2,
                             pwEndTrigram(c.pw))
    ELSE IF r2.trigram < r1.trigram
    THEN LET c == CopyList(x2, maps.map2, r2, pwTrigram(pw, r2.trigram))
         IN  IF c.err THEN [panic |-> FALSE, err |-> TRUE, pw |-> c.pw]
             ELSE MergeLists(x1, x2, maps, r1, pmNextTrigram(x2, c.r),
                             pwEndTrigram(c.pw))
    ELSE IF r1.trigram = U32Max THEN [panic |-> FALSE, err |-> FALSE, pw |-> pw]
    ELSE LET m == Interleave(x1, x2, maps,
                             pmNextID(x1, maps.map1, r1).r,
                             pmNextID(x2, maps.map2, r2).r,
                             pwTrigram(pw, r1.trigram))
         IN  IF m.panic THEN [panic |-> TRUE, err |-> FALSE, pw |-> m.pw]
             ELSE MergeLists(x1, x2, maps, pmNextTrigram(x1, m.r1),
                             pmNextTrigram(x2, m.r2), pwEndTrigram(m.pw))

\* What Merge does: a panic, an error returned, or the file dst as written.
\* step is the part of Merge whose panic statement ran.
MergePanic(step) == [panic |-> TRUE, err |-> FALSE, file |-> <<>>, at |-> step]
MergeErr == [panic |-> FALSE, err |-> TRUE, file |-> <<>>]

\* Merge, lines 321-349: the name index, the posting-list index and the
\* trailer after the posting lists.
MergeTrailer(nameData, postData, nameIndexFile, pw) ==
    [ panic |-> FALSE, err |-> FALSE,
      file  |-> pw.out \o nameIndexFile \o pw.postIndexFile
                \o U32Bytes(Len(magic)) \o U32Bytes(nameData)
                \o U32Bytes(postData) \o U32Bytes(Len(pw.out))
                \o U32Bytes(Len(pw.out) + Len(nameIndexFile)) \o trailerMagic ]

\* Merge, lines 240-319: the posting lists; ix3 holds the bytes written so
\* far, idx the entries of the name index file.
MergePostings(x1, x2, maps, nameData, ix3, idx, ml) ==
    IF ml.panic THEN MergePanic("postings")
    ELSE IF ml.err THEN MergeErr
    \* nameIndexFile.writeUint32(ix3.offset())
    ELSE MergeTrailer(nameData, Len(ix3), idx \o U32Bytes(Len(ix3)), ml.pw)

\* Merge, lines 183-238: the names; ix3 holds the magic and the paths.
MergeNameData(x1, x2, maps, ix3, nm) ==
    IF nm.panic THEN MergePanic("names")
    ELSE MergePostings(x1, x2, maps, Len(ix3), ix3 \o nm.out, nm.idx,
                       MergeLists(x1, x2, maps, pmInit(x1), pmInit(x2),
                                  [out |-> ix3 \o nm.out, postIndexFile |-> <<>>,
                                   base |-> Len(ix3 \o nm.out), count |-> 0,
                                   offset |-> 0, last |-> 0, t |-> 0]))

\* Merge, lines 71-181: the docID maps and the merged paths.
MergePathData(x1, x2, paths1, paths2, maps) ==
    IF maps.panic THEN MergePanic("docID maps")
    ELSE MergeNameData(x1, x2, maps,
                       magic \o PathBytes(MergePaths(paths1, paths2, 0, 0, << 0 >>))
                             \o << 0 >>,
                       MergeNames(x1, x2, maps, 0, 0, 0, [out |-> <<>>, idx |-> <<>>]))

MergeOpened(x1, x2, paths1, paths2) ==
    IF paths1.err \/ paths2.err THEN MergeErr
    ELSE MergePathData(x1, x2, paths1.paths, paths2.paths,
                       IDMaps(x1, x2, paths2.paths))

\* Merge(dst, src1, src2) on the bytes f1 of src1 and f2 of src2.
Merge(f1, f2) ==
    IF ~Open(f1).ok \/ ~Open(f2).ok THEN MergeErr
    ELSE MergeOpened(Open(f1), Open(f2), IndexPaths(Open(f1)), IndexPaths(Open(f2)))

-----------------------------------------------------------------------------
(* The inputs of the model.                                                *)

\* Names handed to Add: "f", "g" and a name with a NUL byte.
AddNames == { << 102 >>, << 103 >>, << 102, 0, 103 >> }

\* Contents handed to Add: "ab", "aaaa", "baaa" and "a\xffa".
AddContents == { << 97, 98 >>, << 97, 97, 97, 97 >>, << 98, 97, 97, 97 >>,
                 << 97, 255, 97 >> }

\* The paths the Writer of Spec is given (AddPaths).
WriterPaths == << << 102 >> >>

\* The trigrams looked up: every trigram over "a" and "b".
Letters == {97, 98}
Trigrams == { Tri(a, b, c) : a \in Letters, b \in Letters, c \in Letters }

\* A corpus is [paths, files], files a sequence of [name, content].
\* BuildIndex is the index file that Create, AddPaths, Add for each file
\* and Flush write, as buildIndex of the tests does.
RECURSIVE AddAll(_, _)
AddAll(wr, files) ==
    IF files = <<>> THEN wr
    ELSE AddAll(WriterAdd(wr, Head(files).name, Head(files).content, TRUE, TRUE).w,
                Tail(files))

BuildIndex(c) ==
    WriterFlush(AddAll([NewWriter EXCEPT !.paths = c.paths], c.files), "none").w.main

NoCorpus == [paths |-> <<>>, files |-> <<>>]
NoMerge == [panic |-> FALSE, err |-> FALSE, file |-> <<>>]
NoQuery == [op |-> "none"]
NoCall == [op |-> "none"]
NoDisk == [env |-> "", files |-> <<>>]

-----------------------------------------------------------------------------
(* Spec: one Writer, from Create to Open.                                  *)

Init ==
    /\ phase = "adding"
    /\ w = [NewWriter EXCEPT !.paths = WriterPaths]
    /\ accepted = <<>>
    /\ ncalls = 0
    /\ last = NoCall
    /\ flushRet = "none"
    /\ ix = NoIndex
    /\ src1 = <<>>
    /\ src2 = <<>>
    /\ corpus1 = NoCorpus
    /\ corpus2 = NoCorpus
    /\ dst = NoMerge
    /\ qres = NoQuery
    /\ disk = NoDisk

\* ix.Add(name, f)
Add ==
    /\ phase = "adding"
    /\ ncalls < MaxAdds
    /\ \E name \in AddNames, content \in AddContents,
          readOK \in BOOLEAN, tmpOK \in BOOLEAN :
          LET r == WriterAdd(w, name, content, readOK, tmpOK)
          IN  /\ w' = r.w
              /\ accepted' = IF r.did = "added"
                             THEN Append(accepted, [id |-> r.id, name |-> name,
                                                    content |-> content])
                             ELSE accepted
              /\ last' = [op |-> "Add", did |-> r.did, ret |-> r.ret,
                          name |-> name, content |-> content]
    /\ ncalls' = ncalls + 1
    /\ UNCHANGED << disk, phase, flushRet, ix, src1, src2, corpus1, corpus2, dst, qres >>

\* ix.Flush(), in which one step may fail
Flush ==
    /\ phase = "adding"
    /\ \E fail \in {"none"} \cup {FlushSteps[i] : i \in 1..Len(FlushSteps)} :
          LET r == WriterFlush(w, fail)
          IN  /\ w' = r.w
              /\ flushRet' = r.ret
              /\ last' = [op |-> "Flush", fail |-> fail]
    /\ phase' = "flushed"
    /\ UNCHANGED << disk, accepted, ncalls, ix, src1, src2, corpus1, corpus2, dst, qres >>

\* Open(file), once Flush has returned nil
OpenIndex ==
    /\ phase = "flushed"
    /\ flushRet = "nil"
    /\ ix' = Open(w.main)
    /\ phase' = "opened"
    /\ UNCHANGED << disk, w, accepted, ncalls, last, flushRet, src1, src2, corpus1,
                    corpus2, dst, qres >>

Next == Add \/ Flush \/ OpenIndex

Spec == Init /\ [][Next]_vars

-----------------------------------------------------------------------------
(* SpecCap: the Writer of Spec with a posting buffer of any capacity.      *)

\* The largest capacity of the posting buffer.
MaxCap == 3

\* Create, with cap(ix.post) between 1 and MaxCap.
InitCap ==
    /\ phase = "adding"
    /\ \E M \in 1..MaxCap :
          w = [NewWriter EXCEPT !.paths = WriterPaths, !.postCap = M]
    /\ accepted = <<>>
    /\ ncalls = 0
    /\ last = NoCall
    /\ flushRet = "none"
    /\ ix = NoIndex
    /\ src1 = <<>>
    /\ src2 = <<>>
    /\ corpus1 = NoCorpus
    /\ corpus2 = NoCorpus
    /\ dst = NoMerge
    /\ qres = NoQuery
    /\ disk = NoDisk

SpecCap == InitCap /\ [][Next]_vars

-----------------------------------------------------------------------------
(* SpecMerge: two indexes written by the Writer, handed to Merge.          *)

\* The names of the files of the source indexes: "a", "ab", and the UTF-8
\* strings "\u00e9" (c3 a9) and "\u00f0" (c3 b0).
SrcNames == { << 97 >>, << 97, 98 >>, << 195, 169 >>, << 195, 176 >> }

\* Their contents: "aaaa" and "baaa".
SrcContents == { << 97, 97, 97, 97 >>, << 98, 97, 97, 97 >> }

\* The strings of S in ascending order.
RECURSIVE SortStrings(_)
SortStrings(S) ==
    IF S = {} THEN <<>>
    ELSE LET m == CHOOSE x \in S : \A y \in S : StrLeq(x, y)
         IN  << m >> \o SortStrings(S \ {m})

\* The paths of src1: "a","\u00f0" or "ab"; of src2: any of "a", "ab",
\* "\u00e9".
SrcPaths1 == { << << 97 >>, << 195, 176 >> >>, << << 97, 98 >> >> }
SrcPaths2 == { SortStrings(T) : T \in SUBSET { << 97 >>, << 97, 98 >>, << 195, 169 >> } }

\* The string after every string that starts with p: p with its last byte
\* one higher.
Succ(p) == [p EXCEPT ![Len(p)] = @ + 1]

\* n lies in the range [p, succ(p)) of the path p.
InRange(n, p) == StrLeq(p, n) /\ StrLess(n, Succ(p))

\* n lies in the range of one of the paths.
Shadowed(n, paths) == \E k \in 1..Len(paths) : InRange(n, paths[k])

\* The file lists with at most MaxMergeFiles files, names from N, in name
\* order as cindex adds them.
FileLists(N) ==
    UNION { { [i \in 1..Len(ns) |-> [name |-> ns[i], content |-> cs[i]]] :
              cs \in [1..Len(ns) -> SrcContents] } :
            ns \in { SortStrings(T) :
                     T \in { U \in SUBSET N : Cardinality(U) <= MaxMergeFiles } } }

Corpora1 == { [paths |-> ps, files |-> fs] :
              ps \in SrcPaths1, fs \in FileLists(SrcNames) }

Corpora2 ==
    UNION { { [paths |-> ps, files |-> fs] :
              fs \in FileLists({ n \in SrcNames : Shadowed(n, ps) }) } :
            ps \in SrcPaths2 }

InitMerge ==
    /\ phase = "sources"
    /\ w = NewWriter
    /\ accepted = <<>>
    /\ ncalls = 0
    /\ last = NoCall
    /\ flushRet = "none"
    /\ ix = NoIndex
    /\ corpus1 \in Corpora1
    /\ src1 = BuildIndex(corpus1)
    /\ corpus2 \in Corpora2
    /\ src2 = BuildIndex(corpus2)
    /\ dst = NoMerge
    /\ qres = NoQuery
    /\ disk = NoDisk

\* Merge(dst, src1, src2)
MergeIndexes ==
    /\ phase = "sources"
    /\ dst' = Merge(src1, src2)
    /\ phase' = "merged"
    /\ UNCHANGED << disk, w, accepted, ncalls, last, flushRet, ix, src1, src2,
                    corpus1, corpus2, qres >>

\* Open(dst)
OpenMerged ==
    /\ phase = "merged"
    /\ ~dst.panic /\ ~dst.err
    /\ ix' = Open(dst.file)
    /\ phase' = "merged-opened"
    /\ UNCHANGED << disk, w, accepted, ncalls, last, flushRet, src1, src2, corpus1,
                    corpus2, dst, qres >>

NextMerge == MergeIndexes \/ OpenMerged

SpecMerge == InitMerge /\ [][NextMerge]_vars

-----------------------------------------------------------------------------
(* SpecRemap: Merge when src2 may hold names that none of its paths        *)
(* covers, as an index file that cindex did not write can.                 *)

\* The file lists with at most one file.
OneFileLists == { fs \in FileLists(SrcNames) : Len(fs) <= 1 }

RemapCorpora1 == { [paths |-> ps, files |-> fs] :
                   ps \in SrcPaths1, fs \in OneFileLists }

RemapCorpora2 == { [paths |-> ps, files |-> fs] :
                   ps \in SrcPaths2, fs \in FileLists(SrcNames) }

InitRemap ==
    /\ phase = "sources"
    /\ w = NewWriter
    /\ accepted = <<>>
    /\ ncalls = 0
    /\ last = NoCall
    /\ flushRet = "none"
    /\ ix = NoIndex
    /\ corpus1 \in RemapCorpora1
    /\ src1 = BuildIndex(corpus1)
    /\ corpus2 \in RemapCorpora2
    /\ src2 = BuildIndex(corpus2)
    /\ dst = NoMerge
    /\ qres = NoQuery
    /\ disk = NoDisk

SpecRemap == InitRemap /\ [][NextMerge]_vars

-----------------------------------------------------------------------------
(* SpecQuery: the posting queries on an index written by the Writer.       *)

\* Number of files of the index that is queried.
MaxQueryFiles == 3

\* The contents of its files: "aaaa", "baab" and "baaa".
QueryContents == { << 97, 97, 97, 97 >>, << 98, 97, 97, 98 >>, << 98, 97, 97, 97 >> }

\* Its files are named "f0", "f1", ...
QueryCorpora ==
    { [ paths |-> << << 102 >> >>,
        files |-> [i \in 1..MaxQueryFiles |->
                      [name |-> << 102, 47 + i >>, content |-> cs[i]]] ] :
      cs \in [1..MaxQueryFiles -> QueryContents] }

\* The trigrams asked for: "aaa", "baa" and "bbb", which no file has.
QueryStrings == { << 97, 97, 97 >>, << 98, 97, 97 >>, << 98, 98, 98 >> }

\* The sequences over S of length at most n: all of them, the
\* non-decreasing ones and the strictly increasing ones.
SeqsUpTo(S, n) == UNION { [1..k -> S] : k \in 0..n }
SortedSeqs(S, n) ==
    { v \in SeqsUpTo(S, n) : \A i \in 1..(Len(v) - 1) : v[i] <= v[i + 1] }
IncreasingSeqs(S, n) ==
    { v \in SeqsUpTo(S, n) : \A i \in 1..(Len(v) - 1) : v[i] < v[i + 1] }

FileIDs == 0..(MaxQueryFiles - 1)

\* restrict: absent, or a list of fileIDs
SortedRestricts == {NilList} \cup { MkList(v) : v \in SortedSeqs(FileIDs, MaxListLen) }
Restricts == {NilList} \cup { MkList(v) : v \in IncreasingSeqs(FileIDs, MaxListLen) }

\* The queries: leaves with up to two trigrams, and And and Or over up to
\* one trigram and one or two leaves.
Q(op, trigram, sub) == [op |-> op, trigram |-> trigram, sub |-> sub]
LeafTrigrams ==
    { ts \in SeqsUpTo(QueryStrings, 2) : Len(ts) = 2 => ts[1] # ts[2] }
LeafQueries ==
    { Q("QAll", <<>>, <<>>), Q("QNone", <<>>, <<>>) }
    \cup { Q(op, ts, <<>>) : op \in {"QAnd", "QOr"}, ts \in LeafTrigrams }
SubQueries ==
    { Q("QAll", <<>>, <<>>), Q("QNone", <<>>, <<>>),
      Q("QAnd", << << 97, 97, 97 >> >>, <<>>),
      Q("QOr", << << 98, 97, 97 >> >>, <<>>),
      Q("QOr", << << 97, 97, 97 >>, << 98, 97, 97 >> >>, <<>>) }
Queries ==
    LeafQueries
    \cup { Q(op, ts, subs) :
           op \in {"QAnd", "QOr"},
           ts \in { t \in SeqsUpTo(QueryStrings, 1) : << 98, 98, 98 >> \notin { t[i] : i \in 1..Len(t) } },
           subs \in SeqsUpTo(SubQueries, 2) \ { <<>> } }

InitQuery ==
    /\ phase = "query"
    /\ w = NewWriter
    /\ accepted = <<>>
    /\ ncalls = 0
    /\ last = NoCall
    /\ flushRet = "none"
    /\ corpus1 \in QueryCorpora
    /\ corpus2 = NoCorpus
    /\ src1 = BuildIndex(corpus1)
    /\ src2 = <<>>
    /\ ix = Open(src1)
    /\ dst = NoMerge
    /\ qres = NoQuery
    /\ disk = NoDisk

\* A query changes nothing in the index; the model takes one a behaviour.
QueryUnchanged ==
    /\ phase' = "answered"
    /\ UNCHANGED << disk, w, accepted, ncalls, last, flushRet, ix, src1, src2,
                 corpus1, corpus2, dst >>

\* ix.postingList(trigram, restrict)
PostingList ==
    /\ phase = "query"
    /\ \E t \in QueryStrings, restrict \in SortedRestricts :
          qres' = [op |-> "postingList", trigram |-> QTri(t), restrict |-> restrict,
                   res |-> postingList(ix, QTri(t), restrict)]
    /\ QueryUnchanged

\* ix.PostingAnd(list, trigram)
PostingAnd ==
    /\ phase = "query"
    /\ \E t \in QueryStrings, v \in IncreasingSeqs(FileIDs, MaxListLen) :
          qres' = [op |-> "PostingAnd", trigram |-> QTri(t), list |-> MkList(v),
                   res |-> postingAnd(ix, MkList(v), QTri(t), NilList)]
    /\ QueryUnchanged

\* ix.PostingOr(list, trigram)
PostingOr ==
    /\ phase = "query"
    /\ \E t \in QueryStrings, v \in IncreasingSeqs(FileIDs, MaxListLen) :
          qres' = [op |-> "PostingOr", trigram |-> QTri(t), list |-> MkList(v),
                   res |-> postingOr(ix, MkList(v), QTri(t), NilList)]
    /\ QueryUnchanged

\* ix.postingQuery(q, restrict)
PostingQuery ==
    /\ phase = "query"
    /\ \E q \in Queries, restrict \in Restricts :
          qres' = [op |-> "postingQuery", q |-> q, restrict |-> restrict,
                   res |-> postingQuery(ix, q, restrict)]
    /\ QueryUnchanged

NextQuery == PostingList \/ PostingAnd \/ PostingOr \/ PostingQuery

SpecQuery == InitQuery /\ [][NextQuery]_vars

-----------------------------------------------------------------------------
(* SpecRules: postingQuery on a query and on the query in a simpler form.   *)

\* The sub-queries of the queries that are simplified.
RuleSubs ==
    { Q("QAll", <<>>, <<>>), Q("QNone", <<>>, <<>>),
      Q("QOr", << << 97, 97, 97 >>, << 98, 97, 97 >> >>, <<>>) }

\* A query q and the form simple that the rule gives it.
Rule(rule, q, simple) == [rule |-> rule, q |-> q, simple |-> simple]

\* And with no trigrams and no sub-queries is All.
EmptyAndRules ==
    { Rule("empty And", Q("QAnd", <<>>, <<>>), Q("QAll", <<>>, <<>>)) }

\* Or containing All is All; And containing None is None.
AbsorbRules ==
    { Rule("Or with All", Q("QOr", ts, subs), Q("QAll", <<>>, <<>>)) :
      ts \in { <<>>, << << 98, 97, 97 >> >> },
      subs \in { v \in SeqsUpTo(RuleSubs, 2) : Q("QAll", <<>>, <<>>) \in Elems(v) } }
    \cup
    { Rule("And with None", Q("QAnd", ts, subs), Q("QNone", <<>>, <<>>)) :
      ts \in { <<>>, << << 98, 97, 97 >> >> },
      subs \in { v \in SeqsUpTo(RuleSubs, 2) : Q("QNone", <<>>, <<>>) \in Elems(v) } }

\* An And in an And, or an Or in an Or, is flattened (the inner query has a
\* trigram or a sub-query).
FlattenRules ==
    { r \in { Rule("flatten", Q(op, ts, << Q(op, ts2, subs2) >> \o rest),
                              Q(op, ts \o ts2, subs2 \o rest)) :
              op \in { "QAnd", "QOr" },
              ts \in { <<>>, << << 98, 97, 97 >> >> },
              ts2 \in { <<>>, << << 97, 97, 97 >> >> },
              subs2 \in SeqsUpTo(RuleSubs, 1),
              rest \in SeqsUpTo(RuleSubs, 1) } :
      Len(r.q.sub[1].trigram) + Len(r.q.sub[1].sub) >= 1 }

\* A trigram that is there twice is there once.
DuplicateRules ==
    { Rule("duplicate", Q(op, << t, t >> \o more, subs), Q(op, << t >> \o more, subs)) :
      op \in { "QAnd", "QOr" },
      t \in QueryStrings,
      more \in { <<>>, << << 98, 97, 97 >> >> },
      subs \in SeqsUpTo(RuleSubs, 1) }

Rules == EmptyAndRules \cup AbsorbRules \cup FlattenRules \cup DuplicateRules

\* restrict: absent, empty, or some of the files
RuleRestricts == { NilList, MkList(<<>>), MkList(<< 1 >>), MkList(<< 0, 2 >>) }

\* ix.postingQuery(q, restrict) and ix.postingQuery(simple, restrict)
PostingRule ==
    /\ phase = "query"
    /\ \E r \in Rules, restrict \in RuleRestricts :
          qres' = [op |-> "rule", rule |-> r.rule, q |-> r.q, simple |-> r.simple,
                   restrict |-> restrict,
                   res |-> postingQuery(ix, r.q, restrict),
                   simpleRes |-> postingQuery(ix, r.simple, restrict)]
    /\ QueryUnchanged

NextRules == PostingRule

SpecRules == InitQuery /\ [][NextRules]_vars

-----------------------------------------------------------------------------
(* SpecOpen: Open on files that are not indexes.                           *)

\* Number of bytes before the trailer of a crafted file.
MaxPad == 2

\* Largest name-index and posting-index offset of a crafted trailer.
MaxOffset == 8

\* An index of one file, "f" with content "aaaa".
SampleIndex ==
    BuildIndex([paths |-> << << 102 >> >>,
                files |-> << [name |-> << 102 >>, content |-> << 97, 97, 97, 97 >>] >>])

\* pad zero bytes, a trailer with the given name-index and posting-index
\* offsets, and the trailer magic.
CraftedFile(pad, nameIndex, postIndex) ==
    [i \in 1..pad |-> 0] \o U32Bytes(0) \o U32Bytes(0) \o U32Bytes(0)
    \o U32Bytes(nameIndex) \o U32Bytes(postIndex) \o trailerMagic

\* The files handed to Open: the beginnings and the ends of SampleIndex
\* (itself among them), and the crafted files.
OpenFiles ==
    { SubSeq(SampleIndex, 1, k) : k \in 0..Len(SampleIndex) }
    \cup { SubSeq(SampleIndex, k, Len(SampleIndex)) : k \in 1..Len(SampleIndex) }
    \cup { CraftedFile(pad, ni, pi) :
           pad \in 0..MaxPad, ni \in 0..MaxOffset, pi \in 0..MaxOffset }

InitOpen ==
    /\ phase = "file"
    /\ w = NewWriter
    /\ accepted = <<>>
    /\ ncalls = 0
    /\ last = NoCall
    /\ flushRet = "none"
    /\ ix = NoIndex
    /\ src1 \in OpenFiles
    /\ src2 = <<>>
    /\ corpus1 = NoCorpus
    /\ corpus2 = NoCorpus
    /\ dst = NoMerge
    /\ qres = NoQuery
    /\ disk = NoDisk

\* Open(file), in a build with a 32-bit or a 64-bit int
OpenFile ==
    /\ phase = "file"
    /\ \E intBits \in {32, 64} :
          /\ ix' = OpenBuild(src1, intBits)
          /\ last' = [op |-> "Open", intBits |-> intBits]
    /\ phase' = "file-opened"
    /\ UNCHANGED << disk, w, accepted, ncalls, flushRet, src1, src2, corpus1, corpus2,
                    dst, qres >>

NextOpen == OpenFile

SpecOpen == InitOpen /\ [][NextOpen]_vars

-----------------------------------------------------------------------------
(* SpecCorrupt: the posting cursor and the posting queries on index files  *)
(* that are corrupt.                                                       *)

\* The largest posting-index offset of a trailer without an index before it.
MaxTrailerOffset == 4

\* An index of two files, "f0" with content "aaaa" and "f1" with "baaa".
CursorIndex ==
    BuildIndex([paths |-> << << 102 >> >>,
                files |-> << [name |-> << 102, 48 >>, content |-> << 97, 97, 97, 97 >>],
                             [name |-> << 102, 49 >>, content |-> << 98, 97, 97, 97 >>] >>])

\* d with the k bytes from position p (1-based) on set to v.
Overwrite(d, p, k, v) ==
    [i \in 1..Len(d) |-> IF p <= i /\ i < p + k THEN v ELSE d[i]]

\* The bytes written over the index.
CorruptBytes == { 0, 1, 128, 255 }

\* The positions (1-based) at which the posting lists of the index x that
\* the cursor reads start, after the three bytes of their trigram.
ListStarts(x) ==
    { x.postData + listAt(x, k).offset + 3 + 1 :
      k \in { j \in 0..(x.numPost - 1) : listAt(x, j).count > 0 } }

\* The index file d of x; d with one byte of its posting-list region
\* overwritten; d with ten bytes that continue a varint written from a
\* position of the region on, where no posting list starts among the last
\* nine of them; and trailers whose posting-list index lies behind the end
\* of the data.
CorruptFilesOf(d, x) ==
    { d }
    \cup { Overwrite(d, p, 1, v) :
           p \in (x.postData + 1)..x.nameIndex, v \in CorruptBytes }
    \cup { Overwrite(d, p, 10, v) :
           p \in { q \in (x.postData + 1)..x.nameIndex :
                   \A l \in ListStarts(x) : ~(q < l /\ l < q + 10) },
           v \in { 128, 255 } }
    \cup { CraftedFile(0, 0, pi) : pi \in 1..MaxTrailerOffset }

CorruptFiles == CorruptFilesOf(CursorIndex, Open(CursorIndex))

InitCorrupt ==
    /\ phase = "query"
    /\ w = NewWriter
    /\ accepted = <<>>
    /\ ncalls = 0
    /\ last = NoCall
    /\ flushRet = "none"
    /\ corpus1 = NoCorpus
    /\ corpus2 = NoCorpus
    /\ src1 \in CorruptFiles
    /\ src2 = <<>>
    /\ ix = Open(src1)
    /\ ix.ok
    /\ dst = NoMerge
    /\ qres = NoQuery
    /\ disk = NoDisk

\* The restricts handed to the cursor: absent, empty, or one fileID.
CursorRestricts == { NilList, MkList(<<>>), MkList(<< 0 >>), MkList(<< 1 >>) }

\* r.init(ix, trigram, restrict)
InitCursor ==
    /\ phase = "query"
    /\ \E t \in QueryStrings, restrict \in CursorRestricts :
          LET in == readerInit(ix, QTri(t), restrict)
          IN  qres' = [op |-> "init", trigram |-> QTri(t), err |-> in.err,
                       ok |-> FALSE, before |-> in.r, r |-> in.r]
    /\ phase' = "cursor"
    /\ UNCHANGED << disk, w, accepted, ncalls, last, flushRet, ix, src1, src2,
                    corpus1, corpus2, dst >>

\* r.next(), after init or after a next that returned true
NextEntry ==
    /\ phase = "cursor"
    /\ ~qres.err
    /\ qres.op = "next" => qres.ok
    /\ LET nx == readerNext(ix, qres.r)
       IN  qres' = [op |-> "next", trigram |-> qres.trigram, err |-> nx.err,
                    ok |-> nx.ok, before |-> qres.r, r |-> nx.r]
    /\ UNCHANGED << disk, phase, w, accepted, ncalls, last, flushRet, ix, src1, src2,
                    corpus1, corpus2, dst >>

NextCorrupt == PostingList \/ PostingAnd \/ PostingOr \/ InitCursor \/ NextEntry

SpecCorrupt == InitCorrupt /\ [][NextCorrupt]_vars

-----------------------------------------------------------------------------
(* SpecLines: a Writer that is given files with long lines.                *)

\* k bytes "a".
Run(k) == [i \in 1..k |-> 97]

\* The lengths of the runs: around maxLineLen.
LineRuns == { 0, 1, maxLineLen - 1, maxLineLen, maxLineLen + 1 }

\* The contents: a run, with or without "\n" after it, and a second one;
\* and "a\xffa", which is not UTF-8.
LineContents ==
    { Run(a) \o nl1 \o Run(b) \o nl2 :
          a \in LineRuns, b \in LineRuns, nl1 \in { <<>>, << 10 >> },
          nl2 \in { <<>>, << 10 >> } }
    \cup { << 97, 255, 97 >> }

\* The Writer has been given no file, or the file "f" with content "aaaa".
InitLines ==
    /\ phase = "adding"
    /\ accepted \in { <<>>, << [id |-> 0, name |-> << 102 >>,
                               content |-> << 97, 97, 97, 97 >>] >> }
    /\ w = AddAll([NewWriter EXCEPT !.paths = WriterPaths], accepted)
    /\ ncalls = Len(accepted)
    /\ last = NoCall
    /\ flushRet = "none"
    /\ ix = NoIndex
    /\ src1 = <<>>
    /\ src2 = <<>>
    /\ corpus1 = NoCorpus
    /\ corpus2 = NoCorpus
    /\ dst = NoMerge
    /\ qres = NoQuery
    /\ disk = NoDisk

\* ix.Add(name, f) as the step of SpecLines: last also keeps the reason
\* for which the call before this one skipped its file.
AddText(name, content, next) ==
    LET r == WriterAdd(w, name, content, TRUE, TRUE)
    IN  /\ w' = r.w
        /\ accepted' = IF r.did = "added"
                       THEN Append(accepted, [id |-> r.id, name |-> name,
                                              content |-> content])
                       ELSE accepted
        /\ last' = [op |-> "Add", did |-> r.did, ret |-> r.ret, skip |-> r.skip,
                    id |-> r.id, name |-> name, content |-> content,
                    before |-> IF last.op = "Add" THEN last.skip ELSE "none"]
        /\ ncalls' = ncalls + 1
        /\ phase' = next
        /\ UNCHANGED << disk, flushRet, ix, src1, src2, corpus1, corpus2, dst, qres >>

\* ix.Add("g", f) for a file with long lines
AddLines ==
    /\ phase = "adding"
    /\ \E content \in LineContents : AddText(<< 103 >>, content, "lines-added")

\* ix.Add("h", f) for the file "baaa", after it
AddAfter ==
    /\ phase = "lines-added"
    /\ AddText(<< 104 >>, << 98, 97, 97, 97 >>, "after")

NextLines == AddLines \/ AddAfter

SpecLines == InitLines /\ [][NextLines]_vars

-----------------------------------------------------------------------------
(* SpecBytes: a Writer that is given short files of arbitrary bytes.       *)

\* The longest content, in bytes.
MaxBytes == 3

\* One byte of each kind validUTF8 tells apart, with the ends of the
\* ranges: "a", "\n", continuation bytes, first bytes of a sequence, and
\* bytes that occur in no UTF-8 text.
TextBytes == { 97, 10, 128, 191, 195, 247, 248, 255 }

\* The contents: every string of at most MaxBytes of these bytes, and a
\* line that is too long before its first byte that is not UTF-8.
ByteContents ==
    UNION { [1..k -> TextBytes] : k \in 0..MaxBytes }
    \cup { Run(maxLineLen + 1) \o << 255 >> }

\* The Writer has been given no file, or the file "f" with content "aaaa".
InitBytes ==
    /\ phase = "bytes"
    /\ accepted \in { <<>>, << [id |-> 0, name |-> << 102 >>,
                               content |-> << 97, 97, 97, 97 >>] >> }
    /\ w = AddAll([NewWriter EXCEPT !.paths = WriterPaths], accepted)
    /\ ncalls = Len(accepted)
    /\ last = NoCall
    /\ flushRet = "none"
    /\ ix = NoIndex
    /\ src1 = <<>>
    /\ src2 = <<>>
    /\ corpus1 = NoCorpus
    /\ corpus2 = NoCorpus
    /\ dst = NoMerge
    /\ qres = NoQuery
    /\ disk = NoDisk

\* ix.Add("g", f) for a file of arbitrary bytes
AddBytes ==
    /\ phase = "bytes"
    /\ \E content \in ByteContents : AddText(<< 103 >>, content, "bytes-added")

NextBytes == AddBytes

SpecBytes == InitBytes /\ [][NextBytes]_vars

-----------------------------------------------------------------------------
(* SpecSort: sortPost on a posting buffer as Add fills it: the fileIDs     *)
(* never decrease, the trigrams are any 24-bit values.                     *)

\* Number of entries of the buffer.
MaxSort == 3

\* Trigrams that differ in the low 12 bits, in the high 12 bits and in both.
SortTrigrams == { 0, 1, 4096, 4097, 8191, EndTrigram }

SortFileIDs == 0..1

\* The buffers: entries << trigram, fileID >>, fileIDs in non-decreasing order.
SortInputs ==
    { p \in UNION { [1..k -> SortTrigrams \X SortFileIDs] : k \in 0..MaxSort } :
        \A i \in 1..(Len(p) - 1) : p[i][2] <= p[i + 1][2] }

InitSort ==
    /\ phase = "sort"
    /\ \E p \in SortInputs : w = [NewWriter EXCEPT !.post = p]
    /\ accepted = <<>>
    /\ ncalls = 0
    /\ last = NoCall
    /\ flushRet = "none"
    /\ ix = NoIndex
    /\ src1 = <<>>
    /\ src2 = <<>>
    /\ corpus1 = NoCorpus
    /\ corpus2 = NoCorpus
    /\ dst = NoMerge
    /\ qres = NoQuery
    /\ disk = NoDisk

\* sortPost(ix.post): the sorted entries are in the buffer it was given.
SortBuffer ==
    /\ phase = "sort"
    /\ w' = [w EXCEPT !.post = sortPost(w.post)]
    /\ last' = [op |-> "sortPost", post |-> w.post]
    /\ phase' = "sorted"
    /\ UNCHANGED << disk, accepted, ncalls, flushRet, ix, src1, src2, corpus1,
                    corpus2, dst, qres >>

NextSort == SortBuffer

SpecSort == InitSort /\ [][NextSort]_vars

-----------------------------------------------------------------------------
(* SpecCindex: runs of the cindex command (cmd/cindex).  disk.env is        *)
(* $CSEARCHINDEX; disk.files maps the name of an index file to              *)
(* [there |-> whether it exists, d |-> its bytes].  The working directory   *)
(* is /dir, an existing directory, and $HOME is /home.                      *)

\* Number of cindex runs in one behaviour.
MaxRuns == 2

CwdIndex == "/dir/.csearchindex"
HomeIndex == "/home/.csearchindex"

\* The index files that can come to exist.
DiskNames == { CwdIndex, HomeIndex, "/env", "/flag" }

NoFile == [there |-> FALSE, d |-> <<>>]

\* The values of -index: not given, a file name, an existing directory.
IndexFlags == { "", "/flag", "/dir" }

\* index.File(): $CSEARCHINDEX, else the .csearchindex of the working
\* directory if it exists, else $HOME/.csearchindex.
File(dk) ==
    IF dk.env # "" THEN dk.env
    ELSE IF dk.files[CwdIndex].there THEN CwdIndex
    ELSE HomeIndex

\* primary of cindex's main: the file an indexing run writes.
Primary(dk, indexFlag) ==
    IF indexFlag # ""
    THEN (IF indexFlag = "/dir" THEN CwdIndex ELSE indexFlag)
    ELSE File(dk)

\* The regular files the walk finds under a path: "a/x" under "a" and "b/y"
\* under "b".
TreeFiles(path) ==
    IF path = << 97 >>
    THEN << [name |-> << 97, 47, 120 >>, content |-> << 97, 97, 97, 97 >>] >>
    ELSE IF path = << 98 >>
    THEN << [name |-> << 98, 47, 121 >>, content |-> << 98, 97, 97, 97 >>] >>
    ELSE <<>>

\* The files the walks over args find, in the order of args.
RECURSIVE WalkAll(_)
WalkAll(args) ==
    IF args = <<>> THEN <<>> ELSE TreeFiles(Head(args)) \o WalkAll(Tail(args))

\* The paths read from the index file f: [err, paths]; err also when f
\* does not exist or is not an index.
PathsOfFile(dk, f) ==
    IF ~dk.files[f].there \/ ~Open(dk.files[f].d).ok
    THEN [err |-> TRUE, paths |-> <<>>]
    ELSE IndexPaths(Open(dk.files[f].d))

\* What a run of cindex leaves: the disk, the file it read or removed for
\* -list, -reset or the paths to reindex ("" when none), whether it ended
\* in log.Fatal, and what -list printed.
CindexDone(dk, used, fatal, printed) ==
    [disk |-> dk, used |-> used, fatal |-> fatal, printed |-> printed]

\* main, lines 197-204: the new index becomes primary, merged with the
\* index that is there unless reset; merged is what Merge did with them.
CindexStore(dk, primary, used, reset, new, merged) ==
    IF reset \/ ~dk.files[primary].there
    THEN CindexDone([dk EXCEPT !.files[primary] = [there |-> TRUE, d |-> new]],
                    used, FALSE, <<>>)
    ELSE IF merged.panic \/ merged.err
    THEN CindexDone(dk, used, TRUE, <<>>)
    ELSE CindexDone([dk EXCEPT !.files[primary] = [there |-> TRUE,
                                                    d |-> merged.file]],
                    used, FALSE, <<>>)

\* main, lines 142-199: new is the index that Create, AddPaths, the walks
\* and Flush have written.
CindexMerge(dk, primary, used, reset, new) ==
    CindexStore(dk, primary, used, reset, new, Merge(dk.files[primary].d, new))

\* main from line 117 on: index the sorted args into primary.
CindexWrite(dk, reset, indexFlag, args, used) ==
    CindexMerge(dk, Primary(dk, indexFlag), used, reset,
                BuildIndex([paths |-> args, files |-> WalkAll(args)]))

\* main, lines 74-115, file being index.File() and old the paths read from
\* it.
CindexMain(dk, list, reset, indexFlag, args, file, old) ==
    IF list THEN CindexDone(dk, file, old.err, old.paths)
    ELSE IF reset /\ args = {}
    THEN CindexDone([dk EXCEPT !.files[file] = NoFile], file, FALSE, <<>>)
    ELSE IF args = {} /\ old.err THEN CindexDone(dk, file, TRUE, <<>>)
    ELSE CindexWrite(dk, reset, indexFlag,
                     SortStrings(IF args = {} THEN Elems(old.paths) ELSE args),
                     IF args = {} THEN file ELSE "")

\* main of cindex with the flags -list, -reset, -index and the path
\* arguments args (a set of absolute paths).
Cindex(dk, list, reset, indexFlag, args) ==
    CindexMain(dk, list, reset, indexFlag, args, File(dk), PathsOfFile(dk, File(dk)))

\* The path arguments: any of "a" and "b".
CindexArgs == SUBSET { << 97 >>, << 98 >> }

InitCindex ==
    /\ phase = "shell"
    /\ w = NewWriter
    /\ accepted = <<>>
    /\ ncalls = 0
    /\ last = NoCall
    /\ flushRet = "none"
    /\ ix = NoIndex
    /\ src1 = <<>>
    /\ src2 = <<>>
    /\ corpus1 = NoCorpus
    /\ corpus2 = NoCorpus
    /\ dst = NoMerge
    /\ qres = NoQuery
    /\ disk \in { [env |-> e, files |-> [f \in DiskNames |-> NoFile]] :
                  e \in { "", "/env" } }

\* cindex [-list] [-reset] [-index path] [path...]
RunCindex ==
    /\ phase = "shell"
    /\ ncalls < MaxRuns
    /\ \E list \in BOOLEAN, reset \in BOOLEAN, indexFlag \in IndexFlags,
          args \in CindexArgs :
          LET r == Cindex(disk, list, reset, indexFlag, args)
          IN  /\ disk' = r.disk
              /\ last' = [op |-> "cindex", list |-> list, reset |-> reset,
                          indexFlag |-> indexFlag, args |-> args,
                          used |-> r.used, fatal |-> r.fatal,
                          printed |-> r.printed,
                          primary |-> Primary(disk, indexFlag)]
    /\ ncalls' = ncalls + 1
    /\ UNCHANGED << phase, w, accepted, flushRet, ix, src1, src2, corpus1,
                    corpus2, dst, qres >>

NextCindex == RunCindex

SpecCindex == InitCindex /\ [][NextCindex]_vars

-----------------------------------------------------------------------------
(* SpecUpdate: an indexing run of cindex, statement by statement, with the *)
(* failures of Create, of the walk, of Flush and of Merge.  last holds the  *)
(* locals of main: primary, file, *resetFlag, args; and, as history, the    *)
(* primary index file as os.Stat found it.                                  *)

\* The index files and the temporary files next to them.
UpdateNames ==
    DiskNames \cup { n \o "~" : n \in DiskNames } \cup { n \o "~~" : n \in DiskNames }

\* The values of -index of these runs: not given, a file name.
UpdateFlags == { "", "/flag" }

\* The steps of Flush that fail in these runs: none, one after which Flush
\* returns the error, one after which it returns nil, and the last flush.
UpdateFlushFails == { "none", "paths", "nameData", "flush" }

\* The number of files the walks of one run find, at most.
MaxWalk == 2

\* file of main when the temporary file is not used.
TempFileIsPrimary(primary, reset) == primary

\* file := primary; if !*resetFlag { file += "~" }
TempFile(primary, reset) == IF reset THEN primary ELSE primary \o "~"

\* log.Fatal in the statement at: the process ends.
UpdateFatal(at) ==
    /\ phase' = "shell"
    /\ last' = [last EXCEPT !.fatal = TRUE, !.at = at]

InitUpdate ==
    /\ phase = "shell"
    /\ w = NewWriter
    /\ accepted = <<>>
    /\ ncalls = 0
    /\ last = NoCall
    /\ flushRet = "none"
    /\ ix = NoIndex
    /\ src1 = <<>>
    /\ src2 = <<>>
    /\ corpus1 = NoCorpus
    /\ corpus2 = NoCorpus
    /\ dst = NoMerge
    /\ qres = NoQuery
    /\ disk = [env |-> "", files |-> [f \in UpdateNames |-> NoFile]]

\* cindex [-reset] [-index path] path...: main up to index.Create(file) and
\* ix.AddPaths(args).
StartUpdate ==
    /\ phase = "shell"
    /\ ncalls < MaxRuns
    /\ ncalls' = ncalls + 1
    /\ \E reset \in BOOLEAN, indexFlag \in UpdateFlags,
          args \in CindexArgs \ {{}}, createOK \in BOOLEAN :
          LET primary  == Primary(disk, indexFlag)
              resetNow == reset \/ ~disk.files[primary].there
              file     == TempFile(primary, resetNow)
          IN  /\ last' = [op |-> "cindex", primary |-> primary, file |-> file,
                          reset |-> resetNow, args |-> SortStrings(args),
                          old |-> disk.files[primary],
                          fatal |-> ~createOK, at |-> "Create"]
              /\ IF createOK
                 THEN /\ disk' = [disk EXCEPT !.files[file] = [there |-> TRUE, d |-> <<>>]]
                      /\ w' = [NewWriter EXCEPT !.paths = SortStrings(args)]
                      /\ phase' = "walk"
                 ELSE /\ phase' = "shell"
                      /\ UNCHANGED << disk, w >>
    /\ dst' = NoMerge
    /\ UNCHANGED << accepted, flushRet, ix, src1, src2, corpus1,
                    corpus2, qres >>

\* The walks over args find files: ix.AddFile for each, until one returns
\* an error (ok false: after k files).
Walked(files, ok, k) ==
    /\ k <= Len(files)
    /\ ok => k = Len(files)
    /\ w' = AddAll(w, SubSeq(files, 1, k))
    /\ IF ok THEN phase' = "flush" /\ last' = [last EXCEPT !.at = "walk"]
             ELSE UpdateFatal("walk")

WalkArgs ==
    /\ phase = "walk"
    /\ \E ok \in BOOLEAN, k \in 0..MaxWalk : Walked(WalkAll(last.args), ok, k)
    /\ UNCHANGED << disk, accepted, ncalls, flushRet, ix, src1, src2, corpus1,
                    corpus2, dst, qres >>

\* main after ix.Flush() has returned r.ret and left the Writer r.w.
Flushed(r) ==
    /\ w' = r.w
    /\ disk' = [disk EXCEPT !.files[last.file] = [there |-> TRUE, d |-> r.w.main]]
    /\ IF r.ret = "err" THEN UpdateFatal("Flush")
       ELSE /\ phase' = IF last.reset THEN "shell" ELSE "merge"
            /\ last' = [last EXCEPT !.at = "Flush"]

\* ix.Flush()
FlushUpdate ==
    /\ phase = "flush"
    /\ \E fail \in UpdateFlushFails : Flushed(WriterFlush(w, fail))
    /\ UNCHANGED << accepted, ncalls, flushRet, ix, src1, src2, corpus1,
                    corpus2, dst, qres >>

\* main after Merge has done m; writeOK: the writes to the destination
\* succeeded.  Merge creates the destination after it has read the paths
\* and built the docID maps.
Merged(m, writeOK) ==
    /\ dst' = m
    /\ IF m.err \/ (m.panic /\ m.at = "docID maps")
       THEN disk' = disk /\ UpdateFatal("Merge")
       ELSE IF m.panic \/ ~writeOK
       THEN /\ disk' = [disk EXCEPT !.files[last.file \o "~"] =
                                       [there |-> TRUE, d |-> <<>>]]
            /\ UpdateFatal("Merge")
       ELSE /\ disk' = [disk EXCEPT !.files[last.file \o "~"] =
                                       [there |-> TRUE, d |-> m.file]]
            /\ phase' = "remove"
            /\ last' = [last EXCEPT !.at = "Merge"]

\* index.Merge(file+"~", primary, file)
MergeUpdate ==
    /\ phase = "merge"
    /\ \E writeOK \in BOOLEAN :
          Merged(Merge(disk.files[last.primary].d, disk.files[last.file].d), writeOK)
    /\ UNCHANGED << w, accepted, ncalls, flushRet, ix, src1, src2, corpus1,
                    corpus2, qres >>

\* os.Remove(file); its error is dropped.
RemoveTemp ==
    /\ phase = "remove"
    /\ \E ok \in BOOLEAN :
          disk' = IF ok THEN [disk EXCEPT !.files[last.file] = NoFile] ELSE disk
    /\ phase' = "rename"
    /\ last' = [last EXCEPT !.at = "Remove"]
    /\ UNCHANGED << w, accepted, ncalls, flushRet, ix, src1, src2, corpus1,
                    corpus2, dst, qres >>

\* os.Rename(file+"~", primary); its error is dropped.
RenameMerged ==
    /\ phase = "rename"
    /\ \E ok \in BOOLEAN :
          disk' = IF ok
                  THEN [disk EXCEPT !.files[last.primary] = disk.files[last.file \o "~"],
                                    !.files[last.file \o "~"] = NoFile]
                  ELSE disk
    /\ phase' = "shell"
    /\ last' = [last EXCEPT !.at = "Rename"]
    /\ UNCHANGED << w, accepted, ncalls, flushRet, ix, src1, src2, corpus1,
                    corpus2, dst, qres >>

NextUpdate ==
    StartUpdate \/ WalkArgs \/ FlushUpdate \/ MergeUpdate \/ RemoveTemp \/ RenameMerged

SpecUpdate == InitUpdate /\ [][NextUpdate]_vars

-----------------------------------------------------------------------------
(* The vocabulary of the properties.                                       *)

\* The integers of S in ascending order.
RECURSIVE SortInts(_)
SortInts(S) ==
    IF S = {} THEN <<>>
    ELSE LET m == CHOOSE x \in S : \A y \in S : x <= y
         IN  << m >> \o SortInts(S \ {m})

StrictlyIncreasing(v) == \A i \in 1..(Len(v) - 1) : v[i] < v[i + 1]

\* The three bytes of the trigram t occur consecutively in content.
Occurs(t, content) ==
    \E i \in 1..(Len(content) - 2) :
        Tri(content[i], content[i + 1], content[i + 2]) = t

\* The count varints stored in d from position pos on.
RECURSIVE DeltasAt(_, _, _)
DeltasAt(d, pos, count) ==
    IF count = 0 THEN <<>>
    ELSE << UvarintAt(d, pos).v >>
         \o DeltasAt(d, pos + UvarintAt(d, pos).n, count - 1)

\* The deltas stored for the k-th entry (from 0) of the posting-list index.
StoredDeltas(x, k) ==
    DeltasAt(x.d, x.postData + listAt(x, k).offset + 3 + 1, listAt(x, k).count)

\* The fileIDs the deltas ds stand for, after the fileID prev.
RECURSIVE Sums(_, _)
Sums(ds, prev) ==
    IF ds = <<>> THEN <<>>
    ELSE << prev + Head(ds) >> \o Sums(Tail(ds), prev + Head(ds))

\* The posting list stored for the trigram t: <<>> when there is none.
StoredList(x, t) ==
    IF \E k \in 0..(x.numPost - 1) : EntryTrigram(x, k) = t
    THEN Sums(StoredDeltas(x, CHOOSE k \in 0..(x.numPost - 1) : EntryTrigram(x, k) = t),
              -1)
    ELSE <<>>

-----------------------------------------------------------------------------
(* Properties of the Writer (Spec).                                        *)

\* C3: after Add calls, Flush and Open, for every trigram t and every
\* accepted file with fileID f: f is in PostingList(t) if and only if the
\* three bytes of t occur consecutively in the file's content.
C3_PostingSoundness ==
    (phase = "opened" /\ ix.ok) =>
        \A t \in Trigrams : \A k \in 1..Len(accepted) :
            /\ ~postingList(ix, t, NilList).err
            /\ (accepted[k].id \in Elems(postingList(ix, t, NilList).list.v))
                   <=> Occurs(t, accepted[k].content)

\* Three files are accepted, one shorter than three bytes, one with "baa"
\* and one without, the posting buffer was flushed to a run on the way, and
\* the index is open.
C3_Witness ==
    /\ phase = "opened" /\ ix.ok
    /\ Len(accepted) = 3
    /\ Len(w.postFile) > 0
    /\ \E k \in 1..3 : Len(accepted[k].content) < 3
    /\ \E k \in 1..3 : Occurs(Tri(98, 97, 97), accepted[k].content)
    /\ \E k \in 1..3 : /\ Occurs(Tri(97, 97, 97), accepted[k].content)
                       /\ ~Occurs(Tri(98, 97, 97), accepted[k].content)

\* C4: after Add calls, Flush and Open, the names read back are the names
\* of the Add calls that were neither skipped nor failed: NumNames is the
\* number of accepted files and Name(i) is the i-th accepted file in Add
\* order, which Add gave the fileID i.
C4_NamesRoundTrip ==
    (phase = "opened" /\ ix.ok) =>
        /\ ix.numName = Len(accepted)
        /\ \A i \in 1..Len(accepted) :
              /\ accepted[i].id = i - 1
              /\ IndexName(ix, i - 1) = [err |-> FALSE, s |-> accepted[i].name]

\* C10: Flush returns a non-nil error whenever one of its steps fails, and
\* never returns nil for an index file that was not written completely.
C10_FlushReportsFailure ==
    (phase = "flushed" /\ last.op = "Flush") =>
        /\ last.fail # "none" => flushRet = "err"
        /\ flushRet = "nil" => Open(w.main).ok

\* The trigrams of content.
TrigramsOf(content) ==
    { Tri(content[i], content[i + 1], content[i + 2]) : i \in 1..(Len(content) - 2) }

\* C12: in an index written by Flush the posting-list index has an entry
\* only for trigrams whose posting list is not empty; the terminal 0xFFFFFF
\* entry is not in it, so the count Open derives is the number of distinct
\* trigrams of the accepted files.
C12_PostIndexNonEmpty ==
    (phase = "opened" /\ ix.ok) =>
        /\ \A k \in 0..(ix.numPost - 1) :
              /\ listAt(ix, k).count > 0
              /\ EntryTrigram(ix, k) # EndTrigram
        /\ ix.numPost =
              Cardinality(UNION { TrigramsOf(accepted[k].content) : k \in 1..Len(accepted) })

\* C16: whenever Flush returns nil, every temporary file the Writer
\* created (name data, name index, posting-list index and the posting runs
\* of flushPost) has been removed.
C16_FlushRemovesTemps ==
    (phase = "flushed" /\ flushRet = "nil") => ~w.tmpLive

-----------------------------------------------------------------------------
(* Properties of Merge (SpecMerge).                                        *)

\* The names and paths read from the two sources.
Names1 == IndexNames(Open(src1)).names
Names2 == IndexNames(Open(src2)).names
Paths2 == IndexPaths(Open(src2)).paths

\* The src1 names that lie in no src2 path's range, and every src2 name,
\* in ascending order.
MergedNames ==
    SortStrings({ n \in Elems(Names1) : ~Shadowed(n, Paths2) } \cup Elems(Names2))

\* The fileIDs that the index written by Merge gives to the names of N.
NewIDs(N) == { i - 1 : i \in { j \in 1..ix.numName : IndexName(ix, j - 1).s \in N } }

\* The content src2 was given for the name n.
Content2(n) ==
    corpus2.files[CHOOSE k \in 1..Len(corpus2.files) : corpus2.files[k].name = n].content

\* C1: Merge of two well-formed sources writes an index whose name list is
\* every src1 name that lies in no src2 path's range plus every src2 name,
\* in ascending order with fileIDs 0..n-1; a name both sources have appears
\* once, and its postings are those of src2's file.
C1_MergeNames ==
    /\ phase \in {"merged", "merged-opened"} => (~dst.panic /\ ~dst.err)
    /\ phase = "merged-opened" =>
          /\ ix.ok
          /\ IndexNames(ix) = [err |-> FALSE, names |-> MergedNames]
          /\ ix.numName = Len(MergedNames)
          /\ \A n \in Elems(Names1) \cap Elems(Names2) : \A t \in Trigrams :
                (NewIDs({n}) \subseteq Elems(postingList(ix, t, NilList).list.v))
                    <=> Occurs(t, Content2(n))

\* The names of the files whose postings for t the merged index is to
\* hold: the files of src1's list that lie in no src2 path's range, and the
\* files of src2's list.
PostingNames(t) ==
    { Names1[f + 1] :
        f \in { g \in Elems(postingList(Open(src1), t, NilList).list.v) :
                ~Shadowed(Names1[g + 1], Paths2) } }
    \cup { Names2[f + 1] : f \in Elems(postingList(Open(src2), t, NilList).list.v) }

\* C2: for every trigram t, PostingList(t) of the index written by Merge is
\* the sorted set of the new fileIDs (the positions of the names in the
\* merged name list) of the files of src1's list for t that no src2 path
\* shadows and of the files of src2's list for t.
C2_MergePostings ==
    phase = "merged-opened" =>
        \A t \in Trigrams :
            /\ ~postingList(ix, t, NilList).err
            /\ PostingNames(t) \subseteq Elems(IndexNames(ix).names)
            /\ postingList(ix, t, NilList).list.v = SortInts(NewIDs(PostingNames(t)))

\* Every posting list of the index x: its stored deltas are at least 1, it
\* is strictly increasing, has no fileID twice and only fileIDs below
\* NumNames.
PostingsInOrder(x) ==
    /\ x.ok
    /\ \A k \in 0..(x.numPost - 1) :
          LET ds == StoredDeltas(x, k)
              l  == postingList(x, EntryTrigram(x, k), NilList)
          IN  /\ \A j \in 1..Len(ds) : ds[j] >= 1
              /\ ~l.err
              /\ Len(l.list.v) = listAt(x, k).count
              /\ StrictlyIncreasing(l.list.v)
              /\ \A i, j \in 1..Len(l.list.v) : i # j => l.list.v[i] # l.list.v[j]
              /\ \A f \in Elems(l.list.v) : 0 <= f /\ f < x.numName

\* C5: in every index written by Flush, and in every index written by Merge
\* from well-formed sources, each posting list's stored deltas are all at
\* least 1, so PostingList(t) is strictly increasing, has no fileID twice
\* and every fileID in it is below NumNames.
C5_PostingsMonotone ==
    /\ phase = "sources" =>
          (PostingsInOrder(Open(src1)) /\ PostingsInOrder(Open(src2)))
    /\ phase = "merged-opened" => PostingsInOrder(ix)

\* Both sources hold a list of two files, one of them written from two runs
\* of the posting buffer, and the merged index a list of three or more.
C5_Witness ==
    /\ phase = "merged-opened" /\ ix.ok
    /\ \E k \in 0..(Open(src1).numPost - 1) : listAt(Open(src1), k).count >= 2
    /\ \E k \in 0..(Open(src2).numPost - 1) : listAt(Open(src2), k).count >= 2
    /\ \E k \in 0..(ix.numPost - 1) :
          /\ listAt(ix, k).count >= 3
          /\ \E j \in 1..Len(StoredDeltas(ix, k)) : StoredDeltas(ix, k)[j] >= 1

\* The posting-list region of the index x: the bytes from postData up to
\* nameIndex.
PostRegion(x) == SubSeq(x.d, x.postData + 1, x.nameIndex)

\* The region ends with the trigram bytes FF FF FF and a single zero byte.
EndsWithTerminal(x) ==
    /\ x.ok
    /\ Len(PostRegion(x)) >= 4
    /\ SubSeq(PostRegion(x), Len(PostRegion(x)) - 3, Len(PostRegion(x)))
          = << 255, 255, 255, 0 >>

\* C13: every index written by Flush and every index written by Merge ends
\* its posting-list region with the terminal entry: the trigram bytes
\* FF FF FF and a delta list of a single zero byte.
C13_TerminalEntry ==
    /\ phase = "sources" =>
          (EndsWithTerminal(Open(src1)) /\ EndsWithTerminal(Open(src2)))
    /\ phase = "merged-opened" => EndsWithTerminal(ix)

\* The i-th entry (from 0) of the name index of x.
NameEntry(x, i) == BEUint32(x.d, x.nameIndex + 4 * i + 1)

\* The name index of x has numName + 1 entries; each is the offset, from
\* the start of the name region, at which the name before it ends, the
\* last one included; and Name(numName) reads inside the name region.
NameIndexInRegion(x) ==
    /\ x.ok
    /\ x.postIndex - x.nameIndex = 4 * (x.numName + 1)
    /\ NameEntry(x, 0) = 0
    /\ \A i \in 0..(x.numName - 1) :
          NameEntry(x, i + 1) = NameEntry(x, i) + Len(IndexName(x, i).s) + 1
    /\ ~IndexName(x, x.numName).err
    /\ x.nameData + NameEntry(x, x.numName) + Len(IndexName(x, x.numName).s) + 1
          <= x.postData

\* C14: in every index written by Flush or by Merge the name index holds
\* numNames + 1 entries, each of them, the final one included, an offset
\* from the start of the name region; the final one is the offset at which
\* the last name's terminator ends, and Name(numNames) does not read
\* outside the name region.
C14_NameIndexSentinel ==
    /\ phase = "sources" =>
          (NameIndexInRegion(Open(src1)) /\ NameIndexInRegion(Open(src2)))
    /\ phase = "merged-opened" => NameIndexInRegion(ix)

\* C17: merging an index X as src1 with an empty index (no paths, no
\* names, no postings) as src2 yields an index with the same Names() as X
\* and, for every trigram, the same PostingList as X.
C17_MergeWithEmpty ==
    corpus2 = NoCorpus =>
        /\ phase \in {"merged", "merged-opened"} => (~dst.panic /\ ~dst.err)
        /\ phase = "merged-opened" =>
              /\ ix.ok
              /\ ~IndexNames(ix).err
              /\ IndexNames(ix) = IndexNames(Open(src1))
              /\ \A t \in Trigrams :
                    /\ ~postingList(ix, t, NilList).err
                    /\ postingList(ix, t, NilList) = postingList(Open(src1), t, NilList)

\* An index of two files that share a trigram was merged with the empty
\* index.
C17_Witness ==
    /\ phase = "merged-opened"
    /\ corpus2 = NoCorpus
    /\ Open(src2).numName = 0
    /\ ix.numName = 2
    /\ \E t \in Trigrams : Len(postingList(ix, t, NilList).list.v) = 2
    /\ \E t \in Trigrams : Len(postingList(ix, t, NilList).list.v) = 1

\* The names of the index x that lie in the range of none of its paths.
Uncovered(x) ==
    { i \in 0..(x.numName - 1) : ~Shadowed(IndexName(x, i).s, IndexPaths(x).paths) }

\* C26: Merge panics in the docID remap exactly when src2 has a name outside
\* the range of every src2 path; when every src2 name lies under a src2
\* path the remap steps never panic.
C26_RemapPanic ==
    phase \in {"merged", "merged-opened"} =>
        ((dst.panic /\ dst.at = "docID maps") <=> Uncovered(Open(src2)) # {})

\* The new fileIDs that the ranges of the docID map idMap stand for.
Targets(idMap) ==
    UNION { idMap[k].new .. (idMap[k].new + (idMap[k].hi - idMap[k].lo) - 1) :
            k \in 1..Len(idMap) }

\* The number of new fileIDs of the ranges of idMap, each range counted.
RECURSIVE TargetCount(_)
TargetCount(idMap) ==
    IF idMap = <<>> THEN 0
    ELSE (Head(idMap).hi - Head(idMap).lo) + TargetCount(Tail(idMap))

\* The target intervals of the maps are pairwise disjoint and together they
\* are 0..numName-1.
MapsPartition(maps) ==
    /\ Targets(maps.map1) \cup Targets(maps.map2) = 0..(maps.new - 1)
    /\ TargetCount(maps.map1) + TargetCount(maps.map2) = maps.new

\* The docID maps Merge builds for the two sources.
SourceMaps == IDMaps(Open(src1), Open(src2), IndexPaths(Open(src2)).paths)

\* C27: when both sources have a posting list for the same trigram the two
\* remapped fileID streams never yield the same new fileID, because the
\* target intervals of map1 and map2 are pairwise disjoint and together
\* cover 0..numName-1; the panic of the interleave step is unreachable for
\* two well-formed sources.
C27_NoCollision ==
    /\ phase = "sources" => (~SourceMaps.panic => MapsPartition(SourceMaps))
    /\ (phase \in {"merged", "merged-opened"} /\ dst.panic) => dst.at # "postings"

\* Both sources have a file with "aaa", both files are in the merged index,
\* and the merged posting list of "aaa" holds the two of them.
C27_Witness ==
    /\ phase = "merged-opened"
    /\ ix.ok /\ ix.numName >= 2
    /\ Len(postingList(Open(src1), Tri(97, 97, 97), NilList).list.v) >= 1
    /\ Len(postingList(Open(src2), Tri(97, 97, 97), NilList).list.v) >= 1
    /\ Len(postingList(ix, Tri(97, 97, 97), NilList).list.v)
          = Len(postingList(Open(src1), Tri(97, 97, 97), NilList).list.v)
            + Len(postingList(Open(src2), Tri(97, 97, 97), NilList).list.v)

\* The merge sort of the sorted path lists p1 and p2, every path kept.
RECURSIVE MergeSorted(_, _)
MergeSorted(p1, p2) ==
    IF p1 = <<>> THEN p2
    ELSE IF p2 = <<>> THEN p1
    ELSE IF StrLeq(Head(p1), Head(p2))
    THEN << Head(p1) >> \o MergeSorted(Tail(p1), p2)
    ELSE << Head(p2) >> \o MergeSorted(p1, Tail(p2))

\* m without each path that is a prefix of the path kept before it; lastp is
\* the path kept last.
RECURSIVE DropPrefixesOfKept(_, _)
DropPrefixesOfKept(m, lastp) ==
    IF m = <<>> THEN <<>>
    ELSE IF HasPrefix(lastp, Head(m)) THEN DropPrefixesOfKept(Tail(m), lastp)
    ELSE << Head(m) >> \o DropPrefixesOfKept(Tail(m), Head(m))

\* m without each path that has the path kept before it as a prefix.
RECURSIVE DropUnderKept(_, _)
DropUnderKept(m, lastp) ==
    IF m = <<>> THEN <<>>
    ELSE IF HasPrefix(Head(m), lastp) THEN DropUnderKept(Tail(m), lastp)
    ELSE << Head(m) >> \o DropUnderKept(Tail(m), Head(m))

\* The paths are in ascending order, each once.
Ascending(ps) == \A i \in 1..(Len(ps) - 1) : StrLess(ps[i], ps[i + 1])

\* The path lists of the two sources, merge-sorted.
SourcePathsMerged ==
    MergeSorted(IndexPaths(Open(src1)).paths, IndexPaths(Open(src2)).paths)

\* C19: in Merge's path region the two sorted path lists are merge-sorted,
\* and a path is dropped exactly when it is a prefix of the previously kept
\* path; every other path is written once, in ascending order.
C19_MergedPaths ==
    phase = "merged-opened" =>
        /\ ~IndexPaths(ix).err
        /\ IndexPaths(ix).paths = DropPrefixesOfKept(SourcePathsMerged, << 0 >>)
        /\ Ascending(IndexPaths(ix).paths)

\* C19, amended: in Merge's path region the two sorted path lists are
\* merge-sorted, and a path is dropped exactly when the previously kept
\* path is a prefix of it (an equal path included); every other path is
\* written once, in ascending order.
C19_MergedPathsUnderKept ==
    phase = "merged-opened" =>
        /\ ~IndexPaths(ix).err
        /\ IndexPaths(ix).paths = DropUnderKept(SourcePathsMerged, << 0 >>)
        /\ Ascending(IndexPaths(ix).paths)

\* A merge has written two paths and dropped a path that is written nowhere
\* in the path region: it lay under the path kept before it.
C19_Witness ==
    /\ phase = "merged-opened"
    /\ Len(IndexPaths(ix).paths) >= 2
    /\ \E i \in 1..Len(SourcePathsMerged) :
          SourcePathsMerged[i] \notin Elems(IndexPaths(ix).paths)

\* The posting-list index of the index x: numPost entries from postIndex
\* on.
PostIndexRegion(x) ==
    SubSeq(x.d, x.postIndex + 1, x.postIndex + postEntrySize * x.numPost)

\* The number of bytes of the contents of files.
RECURSIVE TotalBytes(_)
TotalBytes(files) ==
    IF files = <<>> THEN 0
    ELSE Len(Head(files).content) + TotalBytes(Tail(files))

\* The index of the accepted files when the posting buffer holds every entry
\* and mergePost sorts the whole list in memory.
InMemoryIndex ==
    Open(WriterFlush(AddAll([NewWriter EXCEPT !.paths = WriterPaths,
                                              !.postCap = TotalBytes(accepted) + 1],
                            accepted), "none").w.main)

\* C22: the posting region and the posting-list index that Flush writes
\* depend only on the sequence of accepted (name, content) pairs, not on the
\* capacity of the posting buffer nor on how often flushPost ran: they are
\* those obtained by sorting the whole list in memory.
C22_CapacityIndependent ==
    (phase = "opened" /\ ix.ok) =>
        /\ PostRegion(ix) = PostRegion(InMemoryIndex)
        /\ PostIndexRegion(ix) = PostIndexRegion(InMemoryIndex)

-----------------------------------------------------------------------------
(* Properties of an indexing run of cindex (SpecUpdate).                   *)

\* The run in last found the primary index file and was not given -reset.
Updating == last.op = "cindex" /\ ~last.reset

-----------------------------------------------------------------------------
(* Properties of sortPost (SpecSort).                                      *)

\* The entries of post as a bag.
EntryBag(post) ==
    [e \in Elems(post) |-> Cardinality({ i \in 1..Len(post) : post[i] = e })]

\* The entries of post with the trigram t, in the order they have in post.
WithTrigram(post, t) == SelectSeq(post, LAMBDA e : e[1] = t)

\* C28: sortPost leaves the buffer in ascending order of the packed value
\* (trigram first, then fileID) and as a permutation of its input, for every
\* input with non-decreasing fileIDs and 24-bit trigrams; entries with the
\* same trigram keep their relative order.
C28_SortPost ==
    phase = "sorted" =>
        /\ \A i \in 1..(Len(w.post) - 1) : ~EntryLess(w.post[i + 1], w.post[i])
        /\ EntryBag(w.post) = EntryBag(last.post)
        /\ \A t \in SortTrigrams : WithTrigram(w.post, t) = WithTrigram(last.post, t)

\* A buffer that both rounds reorder: 4097 before 4096 before 1.
C28_Witness ==
    /\ phase = "sorted"
    /\ last.post = << << 4097, 0 >>, << 4096, 0 >>, << 1, 1 >> >>
    /\ w.post = << << 1, 1 >>, << 4096, 0 >>, << 4097, 0 >> >>

-----------------------------------------------------------------------------
(* Properties of Add on arbitrary bytes (SpecBytes).                       *)

\* The kinds of byte of UTF-8: a 1-byte code point, a continuation byte,
\* the first byte of a longer sequence, or a byte of no UTF-8 text.
ByteKind(c) ==
    IF c < 128 THEN "ascii"
    ELSE IF c < 192 THEN "continuation"
    ELSE IF c < 248 THEN "first"
    ELSE "never"

\* The transitions the validity table allows.
AllowedPairs ==
    { << "ascii", "ascii" >>, << "ascii", "first" >>,
      << "continuation", "ascii" >>, << "continuation", "continuation" >>,
      << "continuation", "first" >>, << "first", "continuation" >> }

\* The validity table prohibits c2 after c1.
Prohibited(c1, c2) == << ByteKind(c1), ByteKind(c2) >> \notin AllowedPairs

\* Two adjacent bytes of the content form a prohibited transition.
BadPair(content) ==
    \E i \in 1..(Len(content) - 1) : Prohibited(content[i], content[i + 1])

\* A byte of the content forms a prohibited transition with the byte before
\* it, the byte before the first byte being 0.
BadByte(content) ==
    \E i \in 1..Len(content) :
        Prohibited(IF i = 1 THEN 0 ELSE content[i - 1], content[i])

\* C21: Add skips a file as invalid UTF-8 exactly when two adjacent bytes of
\* its content form a transition the validity table prohibits; a file with
\* no such pair, in particular any one-byte file, is not skipped for this
\* reason.
C21_InvalidPair ==
    (last.op = "Add" /\ phase = "bytes-added") =>
        ((last.skip = "invalid UTF-8") <=> BadPair(last.content))

\* C21, amended: a file is skipped as invalid UTF-8 only if one of its bytes
\* forms a prohibited transition with the byte before it, where the byte
\* before the first byte counts as 0; every file with such a byte is
\* skipped, and as invalid UTF-8 if it is no longer than maxLineLen bytes.
\* A one-byte file is skipped exactly when its byte is a continuation byte
\* or at least 0xF8.
C21_InvalidByte ==
    (last.op = "Add" /\ phase = "bytes-added") =>
        /\ last.skip = "invalid UTF-8" => BadByte(last.content)
        /\ BadByte(last.content) => last.did = "skipped"
        /\ (BadByte(last.content) /\ Len(last.content) <= maxLineLen)
              => last.skip = "invalid UTF-8"
        /\ Len(last.content) = 1 =>
              (last.did = "skipped"
                  <=> ByteKind(last.content[1]) \in {"continuation", "never"})

\* A file of three bytes was skipped as invalid UTF-8 for its first two
\* bytes, the first byte of a sequence and an "a".
C21_Witness ==
    /\ phase = "bytes-added"
    /\ last.skip = "invalid UTF-8"
    /\ Len(last.content) = 3
    /\ ByteKind(last.content[1]) = "first"
    /\ last.content[2] = 97

\* The posting entries the Writer holds, in memory and in flushed runs.
WriterEntries(wr) ==
    Elems(wr.post)
    \cup UNION { Elems(wr.postFile[k]) : k \in 1..Len(wr.postFile) }

\* C29: no accepted file contributes a trigram with a byte >= 0xF8: such a
\* byte anywhere in the content makes Add skip the file, so the sentinel
\* trigram 0xFFFFFF is never the key of a posting entry.
C29_NoSentinelEntry ==
    /\ \A k \in 1..Len(accepted) :
          \A i \in 1..Len(accepted[k].content) : accepted[k].content[i] < 248
    /\ (last.op = "Add" /\ \E i \in 1..Len(last.content) : last.content[i] >= 248)
          => (last.did = "skipped" /\ w = AddAll([NewWriter EXCEPT !.paths = WriterPaths], accepted))
    /\ \A e \in WriterEntries(w) :
          /\ e[1] # EndTrigram
          /\ \A b \in Elems(TrigramBytes(e[1])) : b < 248

\* The file "\xff\xff\xff", whose only trigram is the sentinel, was given to
\* a Writer that holds posting entries, and was skipped.
C29_Witness ==
    /\ phase = "bytes-added"
    /\ last.content = << 255, 255, 255 >>
    /\ last.did = "skipped"
    /\ WriterEntries(w) # {}

\* C25: postingQuery returns the same file list for a query and for its
\* simplified form: And with no trigrams and no sub-queries like All, Or
\* containing All like All, And containing None like None, nested And/And
\* and Or/Or like their flattening, duplicated trigrams like a single one.
C25_SimplifiedSame ==
    qres.op = "rule" =>
        /\ ~qres.res.err
        /\ ~qres.simpleRes.err
        /\ qres.res.list.v = qres.simpleRes.list.v

-----------------------------------------------------------------------------
(* Properties of the posting cursor on corrupt indexes (SpecCorrupt).      *)

\* The position of the last byte of the varint that starts at position p of
\* d, the first byte below 0x80 from p on; 0 if there is none.
VarintLast(d, p) ==
    IF \E j \in p..Len(d) : d[j] < 128
    THEN CHOOSE j \in p..Len(d) : d[j] < 128 /\ \A k \in p..(j - 1) : d[k] >= 128
    ELSE 0

\* The varint at p is malformed: it does not end in d, or it is longer than
\* ten bytes, or its tenth byte is above 1.
Malformed(d, p) ==
    \/ VarintLast(d, p) = 0
    \/ VarintLast(d, p) - p >= 10
    \/ (VarintLast(d, p) - p = 9 /\ d[VarintLast(d, p)] > 1)

\* The varint at p is well-formed and its value is zero.
ZeroDelta(d, p) ==
    /\ ~Malformed(d, p)
    /\ \A k \in p..VarintLast(d, p) : d[k] % 128 = 0

\* The byte at p is the terminating zero.
TerminatorAt(d, p) == p <= Len(d) /\ d[p] = 0

\* From p on d holds count well-formed deltas other than zero and then the
\* terminating zero.
RECURSIVE ListOK(_, _, _)
ListOK(d, p, count) ==
    IF count = 0 THEN TerminatorAt(d, p)
    ELSE /\ ~Malformed(d, p)
         /\ ~ZeroDelta(d, p)
         /\ ListOK(d, VarintLast(d, p) + 1, count - 1)

\* Where the posting list of trigram starts in x, and its count.
ListOf(x, trigram) ==
    [pos |-> x.postData + findList(x, trigram).offset + 3 + 1,
     count |-> findList(x, trigram).count]

\* C23: next() of the posting cursor returns a corrupt-index error if the
\* delta it reads while count > 0 is a malformed varint or is zero; once
\* count has reached zero it reports the end of the list without error if
\* and only if the byte at the cursor is 0, and returns a corrupt-index
\* error otherwise; so postingList fails on a list that lacks its
\* terminating zero.
C23_CursorNext ==
    /\ (phase = "cursor" /\ qres.op = "next") =>
          /\ (qres.before.count > 0
                  /\ (Malformed(ix.d, qres.before.pos) \/ ZeroDelta(ix.d, qres.before.pos)))
                => qres.err
          /\ (qres.before.count = 0 /\ ~qres.before.dnil) =>
                /\ (~qres.err /\ ~qres.ok) <=> TerminatorAt(ix.d, qres.before.pos)
                /\ ~TerminatorAt(ix.d, qres.before.pos) => qres.err
          /\ (~qres.err /\ ~qres.ok /\ ~qres.r.dnil) => TerminatorAt(ix.d, qres.r.pos)
          /\ ~(qres.ok /\ qres.err)
    /\ (phase = "answered" /\ qres.op = "postingList"
            /\ ~findList(ix, qres.trigram).err /\ ListOf(ix, qres.trigram).count > 0) =>
          (qres.res.err <=> ~ListOK(ix.d, ListOf(ix, qres.trigram).pos,
                                    ListOf(ix, qres.trigram).count))

\* The cursor has read a malformed varint while count > 0, and next has
\* returned the error.
C23_Witness ==
    /\ phase = "cursor"
    /\ qres.op = "next"
    /\ qres.before.count > 0
    /\ Malformed(ix.d, qres.before.pos)
    /\ qres.err

\* C24: postingAnd and postingOr return an error to their caller whenever
\* locating or loading the posting list of the trigram fails, that is when
\* postReader.init returns an error; they never treat the failure as an
\* absent trigram and return a list with a nil error.
C24_InitErrorPropagates ==
    (phase = "answered" /\ qres.op \in {"PostingAnd", "PostingOr"}
         /\ readerInit(ix, qres.trigram, NilList).err)
        => qres.res.err

-----------------------------------------------------------------------------
(* Properties of the posting queries (SpecQuery).                          *)

\* The fileIDs a query ranges over: restrict if present, else every file.
Within(x, restrict) ==
    IF restrict.nil THEN 0..(x.numName - 1) ELSE Elems(restrict.v)

\* The fileIDs of U that the query q denotes.
RECURSIVE Denotes(_, _, _)
Denotes(x, q, U) ==
    CASE q.op = "QNone" -> {}
      [] q.op = "QAll"  -> U
      [] q.op = "QAnd"  ->
            { f \in U :
                /\ \A k \in 1..Len(q.trigram) :
                      f \in Elems(StoredList(x, QTri(q.trigram[k])))
                /\ \A k \in 1..Len(q.sub) : f \in Denotes(x, q.sub[k], U) }
      [] q.op = "QOr"   ->
            { f \in U :
                \/ \E k \in 1..Len(q.trigram) :
                      f \in Elems(StoredList(x, QTri(q.trigram[k])))
                \/ \E k \in 1..Len(q.sub) : f \in Denotes(x, q.sub[k], U) }

\* Every And of q has at least one trigram or sub-query.
RECURSIVE AndsHaveOperands(_)
AndsHaveOperands(q) ==
    /\ q.op = "QAnd" => Len(q.trigram) + Len(q.sub) >= 1
    /\ \A k \in 1..Len(q.sub) : AndsHaveOperands(q.sub[k])

\* C6: postingQuery(Q, restrict) returns, as a strictly increasing list,
\* exactly the fileIDs that Q denotes within restrict: none for None,
\* restrict or else every fileID for All, for And (with at least one
\* trigram or sub-query) those in every trigram's posting list and every
\* sub-query's result, for Or those in at least one of them.
C6_PostingQuery ==
    (qres.op = "postingQuery" /\ AndsHaveOperands(qres.q)) =>
        /\ ~qres.res.err
        /\ StrictlyIncreasing(qres.res.list.v)
        /\ qres.res.list.v = SortInts(Denotes(ix, qres.q, Within(ix, qres.restrict)))

\* An And of one trigram and two sub-queries, asked within a restrict of
\* two files, has answered with one of them.
C6_Witness ==
    /\ qres.op = "postingQuery"
    /\ qres.q.op = "QAnd" /\ Len(qres.q.trigram) = 1 /\ Len(qres.q.sub) = 2
    /\ qres.q.sub[1].op = "QOr"
    /\ ~qres.restrict.nil /\ Len(qres.restrict.v) = 2
    /\ Len(qres.res.list.v) = 1

\* C7: PostingAnd(list, t), for a strictly increasing list, returns the
\* fileIDs that are both in list and in t's posting list, in increasing
\* order; when t has no posting list the result is empty.
C7_PostingAnd ==
    qres.op = "PostingAnd" =>
        /\ ~qres.res.err
        /\ qres.res.list.v =
              SortInts(Elems(qres.list.v) \cap Elems(StoredList(ix, qres.trigram)))
        /\ findList(ix, qres.trigram).count = 0 => qres.res.list.v = <<>>

\* PostingAnd has returned one fileID of a list of two, for a trigram whose
\* posting list has a fileID that is not in the list.
C7_Witness ==
    /\ qres.op = "PostingAnd"
    /\ Len(qres.list.v) = 2
    /\ Len(qres.res.list.v) = 1
    /\ Elems(StoredList(ix, qres.trigram)) \ Elems(qres.list.v) # {}

\* C8: PostingOr(list, t), for a strictly increasing list, returns the
\* union of list and t's posting list, in increasing order and each fileID
\* once; when t has no posting list the result equals list.
C8_PostingOr ==
    qres.op = "PostingOr" =>
        /\ ~qres.res.err
        /\ qres.res.list.v =
              SortInts(Elems(qres.list.v) \cup Elems(StoredList(ix, qres.trigram)))
        /\ findList(ix, qres.trigram).count = 0 => qres.res.list.v = qres.list.v

\* PostingOr has returned three fileIDs from a list of two and a posting
\* list of two that share one fileID.
C8_Witness ==
    /\ qres.op = "PostingOr"
    /\ Len(qres.list.v) = 2
    /\ Len(StoredList(ix, qres.trigram)) = 2
    /\ Elems(qres.list.v) \cap Elems(StoredList(ix, qres.trigram)) # {}
    /\ Len(qres.res.list.v) = 3

\* C9: postingList(t, restrict), for a sorted restrict list, returns the
\* fileIDs of t's posting list that also occur in restrict, in increasing
\* order; with restrict absent it returns the whole posting list, and for a
\* trigram that has no posting list the empty list without error.
C9_PostingListRestrict ==
    qres.op = "postingList" =>
        /\ ~qres.res.err
        /\ ~qres.restrict.nil =>
              qres.res.list.v =
                  SortInts(Elems(StoredList(ix, qres.trigram)) \cap Elems(qres.restrict.v))
        /\ qres.restrict.nil => qres.res.list.v = StoredList(ix, qres.trigram)
        /\ findList(ix, qres.trigram).count = 0 => qres.res.list.v = <<>>

\* postingList has returned one fileID of a posting list of two or more,
\* for a restrict that also names a file the posting list does not have.
C9_Witness ==
    /\ qres.op = "postingList"
    /\ ~qres.restrict.nil
    /\ Len(StoredList(ix, qres.trigram)) >= 2
    /\ Len(qres.res.list.v) = 1
    /\ Elems(qres.restrict.v) \ Elems(StoredList(ix, qres.trigram)) # {}

-----------------------------------------------------------------------------
(* Properties of Open (SpecOpen).                                          *)

\* The file d is shorter than the trailer: five offsets and the magic.
TooShort(d) == Len(d) < 5 * 4 + Len(trailerMagic)

\* The file d does not end with the trailer magic.
BadMagic(d) == SubSeq(d, Len(d) - Len(trailerMagic) + 1, Len(d)) # trailerMagic

\* A count derived from the trailer of d is negative: numNames, or
\* numTrigrams (by a whole entry, so that it is negative however the
\* division rounds).
NegativeCount(d) ==
    LET n == Len(d) - Len(trailerMagic) - 5 * 4
    IN  \/ BEUint32(d, n + 17) - BEUint32(d, n + 13) < 4
        \/ n - BEUint32(d, n + 17) <= -postEntrySize

\* C11: Open returns a corrupt-index error, and no Index, whenever the file
\* is shorter than the trailer, does not end with the trailer magic, or
\* yields a negative derived count.
C11_OpenRejectsCorrupt ==
    phase = "file-opened" =>
        ((TooShort(src1) \/ BadMagic(src1) \/ NegativeCount(src1)) => ix = NoIndex)

-----------------------------------------------------------------------------
(* Properties of Add on long lines (SpecLines).                            *)

\* C15: when Add rejects a file by a text heuristic it returns nil and
\* leaves the writer's name data, name index, file count and posting buffer
\* as they were; the next accepted file gets the fileID the rejected one
\* would have got, the number of files accepted before it.
C15_SkipLeavesWriter ==
    [][ /\ (last'.op = "Add" /\ last'.did = "skipped") =>
              /\ last'.ret = "nil"
              /\ w'.nameData = w.nameData
              /\ w'.nameIndex = w.nameIndex
              /\ w'.numName = w.numName
              /\ w'.post = w.post
        /\ (last.op = "Add" /\ last.did = "skipped" /\ last'.did = "added") =>
              last'.id = Len(accepted)
      ]_vars

\* A file was accepted, the next was skipped for a long line, and the file
\* after it was accepted with the fileID 1.
C15_Witness ==
    /\ phase = "after"
    /\ last.before = "line too long"
    /\ last.did = "added" /\ last.id = 1
    /\ Len(accepted) = 2 /\ w.numName = 2

\* The positions at which a line of content starts.
LineStarts(content) ==
    {1} \cup { i + 1 : i \in { j \in 1..Len(content) : content[j] = 10 } }

\* content has a run of more than maxLineLen bytes between "\n" bytes (or
\* the start or the end of the file), the "\n" not counted.
HasLongRun(content) ==
    \E i \in LineStarts(content) :
        /\ i + maxLineLen <= Len(content)
        /\ \A j \in i..(i + maxLineLen) : content[j] # 10

\* C20: Add skips a file as "line too long" exactly when its content has a
\* run of more than 2000 bytes between "\n" bytes, the "\n" itself not
\* counted.
C20_LineTooLong ==
    (phase = "lines-added" /\ last.op = "Add") =>
        (last.skip = "line too long" <=> HasLongRun(last.content))

-----------------------------------------------------------------------------
(* Properties of cindex (SpecCindex).                                      *)

\* C18: cindex resolves one and the same index file in all of its modes:
\* the file that -list, -reset with no paths and the reindex with no paths
\* read or remove is the file an indexing run with the same -index flag and
\* environment writes, the file named by -index when it is given and
\* index.File() otherwise.
C18_OneIndexFile ==
    (last.op = "cindex" /\ last.used # "") => last.used = last.primary

====
